---------------------------- MODULE Spec2Model ----------------------------
(***************************************************************************)
(* A model of the EPK generator (src/api/epk_core.py) and of its callers:  *)
(* the asset validator, the HTML renderer, the single-project and batch    *)
(* flows, and the generate endpoint of the HTTP API (src/api/main.py).     *)
(*                                                                         *)
(* Data representation.                                                    *)
(*   - A JSON object (Python dict) is a function whose DOMAIN is the set   *)
(*     of keys that are present; d.get(k, default) is Get(d, k, default).  *)
(*   - A file name and a genre are sequences of one-character strings, so  *)
(*     that glob matching, str.lower() and the substring test are          *)
(*     computed character by character.                                    *)
(*   - The synopsis is represented by its number of characters; the other  *)
(*     free-text fields by a string ("" is the empty, falsy text).         *)
(*   - A directory is [exists, files]; files is the sequence of entries in *)
(*     the order in which the file system lists them.                      *)
(*   - The generated HTML document is a sequence of elements, one per      *)
(*     piece of markup the templates emit.                                 *)
(***************************************************************************)
EXTENDS Integers, Sequences, FiniteSets, TLC

VARIABLES
    PIL_AVAILABLE,          \* epk_core.py: the image library was imported
    PLAYWRIGHT_AVAILABLE,   \* epk_core.py: the Chromium backend was imported
    WEASYPRINT_AVAILABLE,   \* epk_core.py: the CSS-print backend was imported
    disk,                   \* the file system: directory name -> project directory
    epk,                    \* the EPKGenerator object the single-project steps use
    returned,               \* the last call: its name, arguments and result
    rendered,               \* history: the document first written, per for_pdf value
    ncalls,                 \* history: the number of renderer or batch calls so far
    calls,                  \* history: the methods the last flow invoked, in order
    results,                \* BatchProcessor.results
    batch,                  \* the summary last logged and batch_results.json
    active_projects         \* main.py: the project registry

vars == << PIL_AVAILABLE, PLAYWRIGHT_AVAILABLE, WEASYPRINT_AVAILABLE,
           disk, epk, returned, rendered, ncalls, calls, results, batch,
           active_projects >>

modules == << PIL_AVAILABLE, PLAYWRIGHT_AVAILABLE, WEASYPRINT_AVAILABLE >>

-----------------------------------------------------------------------------
(* Bounds of the model *)

MaxStills == 9      \* most image files in the stills directory
MaxCalls == 2       \* most renderer calls in one behaviour
MaxProjects == 3    \* most sub-directories of a batch root

(* Program constants *)

MinPosterWidth == 1000
MinPosterHeight == 1500
MinStillsCount == 8
StillsSampled == 3
MinStillWidth == 1280
MinSynopsisChars == 200
MaxCoverAwards == 4
MaxGalleryStills == 12

-----------------------------------------------------------------------------
(* Generic helpers *)

\* dict.get(key, default)
Get(d, k, default) == IF k \in DOMAIN d THEN d[k] ELSE default

\* the function f restricted to the keys in S: a dict with only those keys
Restrict(f, S) == [k \in S |-> f[k]]

\* seq[:n]
Take(s, n) == SubSeq(s, 1, IF Len(s) < n THEN Len(s) ELSE n)

\* the elements of a sequence, as a set
Range(s) == { s[i] : i \in DOMAIN s }

RECURSIVE Flatten(_)
\* the concatenation of a sequence of sequences
Flatten(ss) == IF ss = << >> THEN << >> ELSE Head(ss) \o Flatten(Tail(ss))

\* t occurs in s as a contiguous run of characters (Python: t in s)
Contains(s, t) ==
    \E i \in 0 .. (Len(s) - Len(t)) :
        \A j \in 1 .. Len(t) : s[i + j] = t[j]


-----------------------------------------------------------------------------
(* Characters and text *)

UpperChars == << "A", "B", "C", "D", "E", "F", "G", "H", "I", "J", "K", "L", "M",
                 "N", "O", "P", "Q", "R", "S", "T", "U", "V", "W", "X", "Y", "Z" >>
LowerChars == << "a", "b", "c", "d", "e", "f", "g", "h", "i", "j", "k", "l", "m",
                 "n", "o", "p", "q", "r", "s", "t", "u", "v", "w", "x", "y", "z" >>

\* str.lower() on one character
LowerChar(c) ==
    IF \E i \in DOMAIN UpperChars : UpperChars[i] = c
    THEN LowerChars[CHOOSE i \in DOMAIN UpperChars : UpperChars[i] = c]
    ELSE c

\* str.lower()
Lower(s) == [i \in DOMAIN s |-> LowerChar(s[i])]

\* str.upper()
Upper(s) ==
    [i \in DOMAIN s |->
        IF \E k \in DOMAIN LowerChars : LowerChars[k] = s[i]
        THEN UpperChars[CHOOSE k \in DOMAIN LowerChars : LowerChars[k] = s[i]]
        ELSE s[i]]

-----------------------------------------------------------------------------
(* The file system *)

\* a file of an asset directory; width, height and readable are what
\* Image.open finds in it
File(name, readable, width, height) ==
    [name |-> name, readable |-> readable, width |-> width, height |-> height]

NoDirectory == [exists |-> FALSE, files |-> << >>]
Directory(files) == [exists |-> TRUE, files |-> files]

\* Path.glob("*.[jp][pn][g]") on one name: a dot, then one of j p, one of p n, and g
MatchesImageGlob(name) ==
    /\ Len(name) >= 4
    /\ name[Len(name) - 3] = "."
    /\ name[Len(name) - 2] \in {"j", "p"}
    /\ name[Len(name) - 1] \in {"p", "n"}
    /\ name[Len(name)] = "g"

\* list(directory.glob("*.[jp][pn][g]")), in the order the directory lists them
GlobImages(dir) == SelectSeq(dir.files, LAMBDA f : MatchesImageGlob(f.name))

\* the configuration file of a project directory
NoConfigFile == [kind |-> "missing", data |-> << >>]
InvalidConfigFile == [kind |-> "invalid", data |-> << >>]
ConfigFile(data) == [kind |-> "json", data |-> data]

\* epk_package.zip in the project directory: the archive names it holds, those
\* of the output files and those of the asset files
NoPackage == [exists |-> FALSE, named |-> {}, assets |-> {}]

\* a project directory: its configuration file, its asset directories, the
\* files under output/html and output/pdf, and the package
ProjectDir(config_file, posters, stills, crew, downloads) ==
    [exists |-> TRUE, config_file |-> config_file, posters |-> posters,
     stills |-> stills, crew |-> crew, downloads |-> downloads, html |-> << >>,
     pdf |-> << >>, package |-> NoPackage]

\* a directory that does not exist
NoProjectDir ==
    [exists |-> FALSE, config_file |-> NoConfigFile, posters |-> NoDirectory,
     stills |-> NoDirectory, crew |-> NoDirectory, downloads |-> NoDirectory,
     html |-> << >>, pdf |-> << >>, package |-> NoPackage]

-----------------------------------------------------------------------------
(* ValidationResult and EPKGenerator.validate_assets *)

ValidationResult(is_valid, errors, warnings) ==
    [is_valid |-> is_valid, errors |-> errors, warnings |-> warnings]

\* a warning text with the values formatted into it
Warning(text, name, a, b) == [text |-> text, name |-> name, a |-> a, b |-> b]

required_fields ==
    << [field |-> "title", label |-> "Film title"],
       [field |-> "logline", label |-> "Logline"],
       [field |-> "synopsis", label |-> "Synopsis"],
       [field |-> "genre", label |-> "Genre"],
       [field |-> "runtime", label |-> "Runtime"] >>

\* f"Missing required field: {label}"
MissingFieldError(label) ==
    CASE label = "Film title" -> "Missing required field: Film title"
      [] label = "Logline" -> "Missing required field: Logline"
      [] label = "Synopsis" -> "Missing required field: Synopsis"
      [] label = "Genre" -> "Missing required field: Genre"
      [] label = "Runtime" -> "Missing required field: Runtime"

\* a variant that tests only whether the key is there (field not in meta)
FieldMissing_KeyOnly(meta, field) == field \notin DOMAIN meta

\* not meta.get(field): the key is absent or its value is empty
FieldMissing(meta, field) ==
    \/ field \notin DOMAIN meta
    \/ CASE field = "synopsis" -> meta[field] = 0
         [] field = "genre" -> meta[field] = << >>
         [] OTHER -> meta[field] = ""

\* the loop over required_fields
FieldErrors(meta) ==
    LET kept == SelectSeq(required_fields, LAMBDA r : FieldMissing(meta, r.field))
    IN  [i \in DOMAIN kept |-> MissingFieldError(kept[i].label)]

PosterErrors(posters) ==
    IF ~posters.exists \/ GlobImages(posters) = << >>
    THEN << "Poster image required (JPG or PNG)" >>
    ELSE << >>

PosterWarnings(posters, pil) ==
    IF ~posters.exists \/ GlobImages(posters) = << >> THEN << >>
    ELSE IF ~pil THEN << >>
    ELSE LET img == GlobImages(posters)[1]
         IN  IF ~img.readable
             THEN << Warning("Could not validate poster", << >>, 0, 0) >>
             ELSE IF img.width < MinPosterWidth \/ img.height < MinPosterHeight
             THEN << Warning("Poster resolution low", << >>, img.width, img.height) >>
             ELSE << >>

\* a variant that samples every still
LowStills_EveryStill(stills) ==
    { i \in DOMAIN stills : stills[i].readable /\ stills[i].width < MinStillWidth }

\* the sampled stills that can be opened and are too narrow
LowStills(stills) ==
    { i \in 1 .. Len(Take(stills, StillsSampled)) :
        stills[i].readable /\ stills[i].width < MinStillWidth }

\* a variant whose count rule is off by one (<= instead of <)
StillsWarnings_CountOffByOne(stills_dir, pil) ==
    IF stills_dir.exists
    THEN LET stills == GlobImages(stills_dir)
             count == IF Len(stills) <= MinStillsCount
                      THEN << Warning("Only stills found", << >>, Len(stills), 0) >>
                      ELSE << >>
             low == LowStills(stills)
             first == CHOOSE i \in low : \A j \in low : i <= j
             size == IF pil /\ stills # << >> /\ low # {}
                     THEN << Warning("Still resolution low", stills[first].name, 0, 0) >>
                     ELSE << >>
         IN  count \o size
    ELSE << Warning("No production stills folder found", << >>, 0, 0) >>

StillsWarnings(stills_dir, pil) ==
    IF stills_dir.exists
    THEN LET stills == GlobImages(stills_dir)
             count == IF Len(stills) < MinStillsCount
                      THEN << Warning("Only stills found", << >>, Len(stills), 0) >>
                      ELSE << >>
             low == LowStills(stills)
             first == CHOOSE i \in low : \A j \in low : i <= j
             size == IF pil /\ stills # << >> /\ low # {}
                     THEN << Warning("Still resolution low", stills[first].name, 0, 0) >>
                     ELSE << >>
         IN  count \o size
    ELSE << Warning("No production stills folder found", << >>, 0, 0) >>

\* a variant that reports only a configuration without a contact section
ContactErrors_SectionOnly(config) ==
    IF "contact" \notin DOMAIN config THEN << "Contact email required" >> ELSE << >>

ContactErrors(config) ==
    LET contact == Get(config, "contact", << >>)
    IN  IF "email" \notin DOMAIN contact \/ contact["email"] = ""
        THEN << "Contact email required" >>
        ELSE << >>

SynopsisWarnings(meta) ==
    LET synopsis == Get(meta, "synopsis", 0)
    IN  IF synopsis # 0 /\ synopsis < MinSynopsisChars
        THEN << Warning("Synopsis is short", << >>, synopsis, 0) >>
        ELSE << >>

\* a variant in which a warning makes the result invalid too
IsValid_NoWarnings(errors, warnings) == Len(errors) = 0 /\ Len(warnings) = 0

\* is_valid = len(errors) == 0
IsValid(errors, warnings) == Len(errors) = 0

\* a JSON string where a configuration section is expected
JsonString(text) == [json_type |-> "string", value |-> text]

\* a value of the configuration that is a JSON object
IsDict(value) == "json_type" \notin DOMAIN value

\* contact.get('email') on a contact that is no dict: validate_assets raises
\* AttributeError, after the poster and the stills were looked at
ValidationRaises(config) == ~IsDict(Get(config, "contact", << >>))

\* a variant that checks the contact section before everything else
validate_assets_ContactFirst(config, dir, pil) ==
    LET meta == Get(config, "metadata", << >>)
        errors == ContactErrors(config) \o FieldErrors(meta) \o PosterErrors(dir.posters)
        warnings == PosterWarnings(dir.posters, pil) \o StillsWarnings(dir.stills, pil)
                    \o SynopsisWarnings(meta)
    IN  ValidationResult(IsValid(errors, warnings), errors, warnings)

\* validate_assets on a configuration with which it returns
validate_assets(config, dir, pil) ==
    LET meta == Get(config, "metadata", << >>)
        errors == FieldErrors(meta) \o PosterErrors(dir.posters) \o ContactErrors(config)
        warnings == PosterWarnings(dir.posters, pil) \o StillsWarnings(dir.stills, pil)
                    \o SynopsisWarnings(meta)
    IN  ValidationResult(IsValid(errors, warnings), errors, warnings)

-----------------------------------------------------------------------------
(* Paths *)

\* a path: scheme "file" for a file URI, anchor "/" for an absolute path, up
\* leading ".." components, the directory names, and the file name
Path(scheme, anchor, up, dirs, name) ==
    [scheme |-> scheme, anchor |-> anchor, up |-> up, dirs |-> dirs, name |-> name]

\* the src of an element that refers to no file
NoPath == Path("none", "", 0, << >>, << >>)

\* the working directory of the process
Cwd == << "home", "user" >>

\* the identifiers of API projects, whose directories live under PROJECTS_DIR
ApiIds == { "id1", "id2", "id3" }

\* Path(project_dir): an API project is under the absolute temporary directory,
\* a command-line project is named relative to the working directory
ProjectPath(project_dir) ==
    IF project_dir \in ApiIds
    THEN Path("", "/", 0, << "tmp", "epk_projects", project_dir >>, << >>)
    ELSE Path("", "", 0, << project_dir >>, << >>)

\* base / other: an absolute right operand replaces the left one
JoinPath(base, other) ==
    IF other.anchor = "/" THEN other
    ELSE Path(base.scheme, base.anchor, base.up + other.up,
              base.dirs \o other.dirs, other.name)

\* Path.resolve()
Resolve(p) == IF p.anchor = "/" THEN p ELSE Path(p.scheme, "/", 0, Cwd \o p.dirs, p.name)

\* Path.as_uri(), on an absolute path
AsUri(p) == Path("file", p.anchor, p.up, p.dirs, p.name)

\* Path.relative_to(base) succeeds when base is a leading part of p
IsUnder(p, base) ==
    /\ p.anchor = base.anchor
    /\ Len(p.dirs) >= Len(base.dirs)
    /\ SubSeq(p.dirs, 1, Len(base.dirs)) = base.dirs

\* Path.relative_to(base)
RelativeTo(p, base) ==
    Path("", "", 0, SubSeq(p.dirs, Len(base.dirs) + 1, Len(p.dirs)), p.name)

\* Path("../../") / p
UpTwo(p) == JoinPath(Path("", "", 2, << >>, << >>), p)

\* a variant of AssetRef that always emits the relative form
AssetRef_AlwaysRelative(file, project, for_pdf) == UpTwo(RelativeTo(file, project))

\* the reference emitted for an asset file: the absolute file URI for the PDF,
\* the path relative to output/html for the browser
AssetRef(file, project, for_pdf) ==
    IF for_pdf THEN AsUri(Resolve(file)) ELSE UpTwo(RelativeTo(file, project))

PostersPath == << "assets", "images", "posters" >>
StillsPath == << "assets", "images", "stills" >>
CrewPath == << "assets", "images", "crew" >>
DownloadsPath == << "assets", "downloads" >>

\* files outside every project directory that exist
ExternalFiles == { Path("", "/", 0, << "srv", "photos" >>, << "d", ".", "j", "p", "g" >>) }

\* Path.exists() for a team photo
PhotoExists(p, project, dir) ==
    \/ p \in ExternalFiles
    \/ /\ IsUnder(p, project)
       /\ RelativeTo(p, project).dirs = CrewPath
       /\ dir.crew.exists
       /\ \E i \in DOMAIN dir.crew.files : dir.crew.files[i].name = p.name

-----------------------------------------------------------------------------
(* The HTML document and the section generators *)

\* one piece of markup: a section heading, an item of a section, or a
\* reference to an asset file
El(kind, name, src) == [kind |-> kind, name |-> name, src |-> src]

Html(html) == [raised |-> FALSE, html |-> html]
RaisedInSection == [raised |-> TRUE, html |-> << >>]

\* getattr(self, '_for_pdf', False)
ForPdf(self) == Get(self.attrs, "_for_pdf", FALSE)

GENRE_COLORS ==
    << [key |-> << "h", "o", "r", "r", "o", "r" >>,
        colors |-> [primary |-> "#8B0000", secondary |-> "#2C2C2C", accent |-> "#FF4444"]],
       [key |-> << "s", "c", "i", "-", "f", "i" >>,
        colors |-> [primary |-> "#1E3A8A", secondary |-> "#0F172A", accent |-> "#60A5FA"]],
       [key |-> << "f", "a", "n", "t", "a", "s", "y" >>,
        colors |-> [primary |-> "#7C3AED", secondary |-> "#1E1B4B", accent |-> "#A78BFA"]],
       [key |-> << "c", "o", "m", "e", "d", "y" >>,
        colors |-> [primary |-> "#F59E0B", secondary |-> "#78350F", accent |-> "#FBBF24"]],
       [key |-> << "d", "r", "a", "m", "a" >>,
        colors |-> [primary |-> "#374151", secondary |-> "#1F2937", accent |-> "#9CA3AF"]],
       [key |-> << "a", "c", "t", "i", "o", "n" >>,
        colors |-> [primary |-> "#DC2626", secondary |-> "#18181B", accent |-> "#EF4444"]],
       [key |-> << "d", "o", "c", "u", "m", "e", "n", "t", "a", "r", "y" >>,
        colors |-> [primary |-> "#059669", secondary |-> "#064E3B", accent |-> "#10B981"]],
       [key |-> << "r", "o", "m", "a", "n", "c", "e" >>,
        colors |-> [primary |-> "#DB2777", secondary |-> "#831843", accent |-> "#F472B6"]],
       [key |-> << "t", "h", "r", "i", "l", "l", "e", "r" >>,
        colors |-> [primary |-> "#4B5563", secondary |-> "#111827", accent |-> "#6B7280"]] >>

DEFAULT_COLORS == [primary |-> "#2563EB", secondary |-> "#1E293B", accent |-> "#3B82F6"]

RECURSIVE ColorsFrom(_, _)
\* the loop of _get_colors_for_genre, from entry i on
ColorsFrom(i, genre) ==
    IF i > Len(GENRE_COLORS) THEN DEFAULT_COLORS
    ELSE IF Contains(genre, GENRE_COLORS[i].key) THEN GENRE_COLORS[i].colors
    ELSE ColorsFrom(i + 1, genre)

_get_colors_for_genre(genre) == ColorsFrom(1, genre)

\* a variant that passes the genre on as it is written
ThemeGenre_AsWritten(meta) == Get(meta, "genre", << >>)

\* meta.get('genre', '').lower()
ThemeGenre(meta) == Lower(Get(meta, "genre", << >>))

\* one element per entry of a list
Items(list, name) == [i \in DOMAIN list |-> El("item", name, NoPath)]

_generate_cover(self, dir) ==
    LET meta == Get(self.config, "metadata", << >>)
        awards == Take(Get(self.config, "awards", << >>), MaxCoverAwards)
        posters == IF dir.posters.exists THEN GlobImages(dir.posters) ELSE << >>
        file == JoinPath(ProjectPath(self.project_dir),
                         Path("", "", 0, PostersPath, posters[1].name))
        poster_html ==
            IF posters # << >>
            THEN << El("img", "poster",
                       AssetRef(file, ProjectPath(self.project_dir), ForPdf(self))) >>
            ELSE << >>
        laurels_html ==
            IF awards # << >> /\ ~ForPdf(self)
            THEN << El("item", "laurels", NoPath) >> \o Items(awards, "laurel")
            ELSE << >>
        title == << El("title", IF ForPdf(self) THEN "margin-bottom: 10px;" ELSE "",
                       NoPath) >>
        tagline == IF Get(meta, "tagline", "") # ""
                   THEN << El("item", "tagline", NoPath) >> ELSE << >>
    IN  Html(<< El("section", "cover", NoPath) >> \o poster_html \o title \o tagline
             \o << El("item", "film-meta", NoPath) >> \o laurels_html)

_generate_synopsis(self) ==
    Html(<< El("section", "Synopsis", NoPath), El("item", "logline", NoPath),
            El("item", "synopsis-text", NoPath) >>)

\* int(text) succeeds on a decimal numeral
IsNumeral(text) == text \in { "0", "1", "2", "3", "4", "5" }

_generate_reviews(self) ==
    LET reviews == Get(self.config, "reviews", << >>)
        card(r) == (IF Get(r, "rating", "") # ""
                    THEN << El("item", "review-rating", NoPath) >> ELSE << >>)
                   \o << El("item", "review-card", NoPath) >>
    IN  IF reviews = << >> THEN Html(<< >>)
        ELSE IF \E i \in DOMAIN reviews :
                    Get(reviews[i], "rating", "") # ""
                    /\ ~IsNumeral(reviews[i]["rating"])
        THEN RaisedInSection
        ELSE Html(<< El("section", "Press & Reviews", NoPath) >>
                  \o Flatten([i \in DOMAIN reviews |-> card(reviews[i])]))

_generate_festivals(self) ==
    LET festivals == Get(self.config, "festivals", << >>)
        awards == Get(self.config, "awards", << >>)
        content ==
            (IF awards # << >>
             THEN << El("item", "Awards", NoPath) >> \o Items(awards, "laurel")
             ELSE << >>)
            \o (IF festivals # << >>
                THEN << El("item", "Festival Screenings", NoPath) >>
                     \o Items(festivals, "festival")
                ELSE << >>)
    IN  IF festivals = << >> /\ awards = << >> THEN Html(<< >>)
        ELSE IF content # << >>
        THEN Html(<< El("section", "Festivals & Awards", NoPath) >> \o content)
        ELSE Html(<< >>)

_generate_press(self) ==
    LET press == Get(self.config, "press_coverage", << >>)
    IN  IF press = << >> THEN Html(<< >>)
        ELSE Html(<< El("section", "Press Coverage", NoPath) >> \o Items(press, "article"))

_generate_team(self, dir) ==
    LET team == Get(self.config, "team", << >>)
        project == ProjectPath(self.project_dir)
        photo_path(m) == JoinPath(project, m["photo"])
        has_photo(m) ==
            /\ "photo" \in DOMAIN m
            /\ m["photo"] # NoPath
            /\ PhotoExists(photo_path(m), project, dir)
        member(m) ==
            (IF has_photo(m)
             THEN << El("img", "team-photo", AssetRef(photo_path(m), project, ForPdf(self))) >>
             ELSE << >>)
            \o << El("item", "team-member", NoPath) >>
    IN  IF team = << >> THEN Html(<< >>)
        ELSE IF \E i \in DOMAIN team :
                    /\ has_photo(team[i])
                    /\ ~ForPdf(self)
                    /\ ~IsUnder(photo_path(team[i]), project)
        THEN RaisedInSection
        ELSE Html(<< El("section", "Cast & Crew", NoPath) >>
                  \o Flatten([i \in DOMAIN team |-> member(team[i])]))

_generate_distribution(self) ==
    LET dist == Get(self.config, "distribution", << >>)
        theatrical == Get(dist, "theatrical_release", "") # ""
        digital == Get(dist, "digital_release", "") # ""
        platforms == Get(dist, "platforms", << >>)
        content ==
            (IF theatrical \/ digital THEN << El("item", "release-dates", NoPath) >>
             ELSE << >>)
            \o (IF theatrical THEN << El("item", "THEATRICAL RELEASE", NoPath) >> ELSE << >>)
            \o (IF digital THEN << El("item", "DIGITAL RELEASE", NoPath) >> ELSE << >>)
            \o (IF platforms # << >>
                THEN << El("item", "Available On", NoPath) >> \o Items(platforms, "platform")
                ELSE << >>)
    IN  IF DOMAIN dist = {} THEN Html(<< >>)
        ELSE Html(<< El("section", "Distribution & Availability", NoPath) >> \o content)

_generate_technical(self) ==
    LET meta == Get(self.config, "metadata", << >>)
        tech == Get(self.config, "technical", << >>)
        specs ==
            << [label |-> "Runtime", given |-> Get(meta, "runtime", "") # ""],
               [label |-> "Genre", given |-> Get(meta, "genre", << >>) # << >>],
               [label |-> "Rating", given |-> Get(meta, "rating", "") # ""],
               [label |-> "Language", given |-> Get(meta, "language", "") # ""],
               [label |-> "Country", given |-> Get(meta, "country", "") # ""],
               [label |-> "Release Date", given |-> Get(meta, "release_date", "") # ""],
               [label |-> "Aspect Ratio", given |-> Get(tech, "aspect_ratio", "") # ""],
               [label |-> "Sound", given |-> Get(tech, "sound", "") # ""],
               [label |-> "Color", given |-> Get(tech, "color", "") # ""] >>
        rows == SelectSeq(specs, LAMBDA r : r.given)
    IN  Html(<< El("section", "Technical Information", NoPath) >>
             \o [i \in DOMAIN rows |-> El("item", rows[i].label, NoPath)])

\* the characters of file names, in code-point order
CharOrder ==
    << " ", "-", ".", "0", "1", "2", "3", "4", "5", "6", "7", "8", "9" >>
    \o UpperChars \o << "_" >> \o LowerChars

\* ord(c)
Ord == [c \in Range(CharOrder) |-> CHOOSE i \in DOMAIN CharOrder : CharOrder[i] = c]

RECURSIVE LessFrom(_, _, _)
\* a[i..] < b[i..]
LessFrom(a, b, i) ==
    IF i > Len(b) THEN FALSE
    ELSE IF i > Len(a) THEN TRUE
    ELSE IF a[i] = b[i] THEN LessFrom(a, b, i + 1)
    ELSE Ord[a[i]] < Ord[b[i]]

\* a < b for two file names, as Python compares strings
NameLess(a, b) == LessFrom(a, b, 1)

_generate_gallery(self, dir) ==
    LET project == ProjectPath(self.project_dir)
        stills == Take(SortSeq(GlobImages(dir.stills),
                               LAMBDA a, b : NameLess(a.name, b.name)),
                       MaxGalleryStills)
        ref(f) == AssetRef(JoinPath(project, Path("", "", 0, StillsPath, f.name)),
                           project, ForPdf(self))
    IN  IF ~dir.stills.exists THEN Html(<< >>)
        ELSE IF stills = << >> THEN Html(<< >>)
        ELSE Html(<< El("section", "Production Stills", NoPath) >>
                  \o [i \in DOMAIN stills |-> El("img", "still", ref(stills[i]))])

_generate_downloads(self, dir) ==
    LET project == ProjectPath(self.project_dir)
        files == dir.downloads.files
        ref(f) == AssetRef(JoinPath(project, Path("", "", 0, DownloadsPath, f.name)),
                           project, ForPdf(self))
    IN  IF ~dir.downloads.exists THEN Html(<< >>)
        ELSE IF files = << >> THEN Html(<< >>)
        ELSE Html(<< El("section", "Download Press Materials", NoPath) >>
                  \o [i \in DOMAIN files |-> El("a", "download", ref(files[i]))])

_generate_contact(self) ==
    LET contact == Get(self.config, "contact", << >>)
        line(key) == IF Get(contact, key, "") # ""
                     THEN << El("item", key, NoPath) >> ELSE << >>
    IN  Html(<< El("section", "Contact", NoPath), El("item", "distribution_company", NoPath) >>
             \o line("name") \o << El("item", "email", NoPath) >>
             \o line("phone") \o line("website"))

-----------------------------------------------------------------------------
(* EPKGenerator.generate_html and generate_pdf *)

\* a variant that opens the output file for appending
WriteFile_Append(files, name, doc) ==
    [n \in DOMAIN files \cup { name } |->
        IF n # name THEN files[n]
        ELSE IF name \in DOMAIN files
        THEN [doc EXCEPT !.body = files[name].body \o doc.body]
        ELSE doc]

\* open(path, 'w') and write: the file holds exactly the new content
WriteFile(files, name, doc) ==
    [n \in DOMAIN files \cup { name } |-> IF n = name THEN doc ELSE files[n]]

\* the sections of the document, in the order of the template
Sections(self, dir) ==
    << _generate_cover(self, dir),
       _generate_synopsis(self),
       _generate_reviews(self),
       _generate_festivals(self),
       _generate_press(self),
       _generate_team(self, dir),
       _generate_distribution(self),
       _generate_technical(self),
       _generate_gallery(self, dir),
       _generate_downloads(self, dir),
       _generate_contact(self) >>

\* a variant that stores the flag only when it is set
StoreFlag_OnlyWhenSet(self, for_pdf) ==
    IF for_pdf THEN [self EXCEPT !.attrs = [k \in { "_for_pdf" } |-> for_pdf]] ELSE self

\* self._for_pdf = for_pdf
StoreFlag(self, for_pdf) == [self EXCEPT !.attrs = [k \in { "_for_pdf" } |-> for_pdf]]

\* a variant that opens the output file before the document is built, so
\* that a section that raises leaves the file truncated
generate_html_OpensFirst(self, dsk, output_name, for_pdf) ==
    LET stored == [self EXCEPT !.attrs = [k \in { "_for_pdf" } |-> for_pdf]]
        dir == dsk[self.project_dir]
        meta == Get(self.config, "metadata", << >>)
        sections == Sections(stored, dir)
        raised == \E i \in DOMAIN sections : sections[i].raised
        doc == [title |-> Get(meta, "title", "Film"),
                colors |-> _get_colors_for_genre(ThemeGenre(meta)),
                body |-> IF raised THEN << >>
                         ELSE Flatten([i \in DOMAIN sections |-> sections[i].html])]
    IN  [raised |-> raised,
         self |-> stored,
         disk |-> [dsk EXCEPT ![self.project_dir].exists = TRUE,
                              ![self.project_dir].html = WriteFile(@, output_name, doc)],
         path |-> output_name]

\* generate_html(output_name, for_pdf): the flag is stored first, then the
\* document is built (a section may raise), then the file is written.
\* The result is the generator and the disk after the call.
generate_html(self, dsk, output_name, for_pdf) ==
    LET stored == StoreFlag(self, for_pdf)
        dir == dsk[self.project_dir]
        meta == Get(self.config, "metadata", << >>)
        colors == _get_colors_for_genre(ThemeGenre(meta))
        sections == Sections(stored, dir)
        raised == \E i \in DOMAIN sections : sections[i].raised
        doc == [title |-> Get(meta, "title", "Film"), colors |-> colors,
                body |-> Flatten([i \in DOMAIN sections |-> sections[i].html])]
    IN  [raised |-> raised,
         self |-> stored,
         disk |-> IF raised THEN dsk
                  ELSE [dsk EXCEPT ![self.project_dir].exists = TRUE,
                                   ![self.project_dir].html =
                                       WriteFile(@, output_name, doc)],
         path |-> output_name]

\* the PDF backends, and the private method that renders with each
Backends == { "playwright", "weasyprint" }
BackendMethod(backend) ==
    IF backend = "playwright" THEN "_generate_pdf_playwright" ELSE "_generate_pdf_weasyprint"

\* a variant that takes the CSS-print backend for granted
PdfBackend_WeasyprintAssumed(use_playwright) ==
    IF use_playwright /\ PLAYWRIGHT_AVAILABLE THEN "playwright" ELSE "weasyprint"

\* the backend generate_pdf chooses
PdfBackend(use_playwright) ==
    IF use_playwright /\ PLAYWRIGHT_AVAILABLE THEN "playwright"
    ELSE IF WEASYPRINT_AVAILABLE THEN "weasyprint"
    ELSE "none"

\* _generate_pdf_playwright / _generate_pdf_weasyprint(html_file, output_name):
\* gen is the result of rendering the print document, used when html_file is
\* "None"; renders holds the backends whose renderer succeeds.  Every
\* exception is caught and the call returns no path.
RenderPdf(self, dsk, html_file, output_name, backend, renders, gen) ==
    LET rerender == html_file = "None"
        self1 == IF rerender THEN gen.self ELSE self
        dsk1 == IF rerender THEN gen.disk ELSE dsk
        source == IF rerender THEN "temp_for_pdf.html" ELSE html_file
        failed ==
            \/ (rerender /\ gen.raised)
            \/ source \notin DOMAIN dsk1[self.project_dir].html
            \/ backend \notin renders
    IN  [self |-> self1,
         disk |-> IF failed THEN dsk1
                  ELSE [dsk1 EXCEPT ![self.project_dir].pdf =
                           [n \in DOMAIN @ \cup { output_name } |->
                               IF n = output_name
                               THEN [backend |-> backend,
                                     source |-> dsk1[self.project_dir].html[source]]
                               ELSE @[n]]],
         path |-> IF failed THEN "None" ELSE output_name,
         rerendered |-> rerender /\ ~gen.raised,
         calls |-> << [project |-> self.project_dir, method |-> BackendMethod(backend),
                       raised |-> FALSE,
                       value |-> IF failed THEN "None" ELSE output_name] >>]

\* a variant that falls back on the CSS-print backend when the Chromium-based
\* one returned no path
generate_pdf_WithFallback(self, dsk, html_file, output_name, use_playwright, renders) ==
    LET gen == generate_html(self, dsk, "temp_for_pdf.html", TRUE)
        first == RenderPdf(self, dsk, html_file, output_name, PdfBackend(use_playwright),
                           renders, gen)
        second == RenderPdf(self, dsk, html_file, output_name, "weasyprint", renders, gen)
    IN  IF PdfBackend(use_playwright) = "none"
        THEN [self |-> self, disk |-> dsk, path |-> "None", rerendered |-> FALSE,
              calls |-> << >>]
        ELSE IF PdfBackend(use_playwright) = "playwright" /\ first.path = "None"
                /\ WEASYPRINT_AVAILABLE
        THEN [second EXCEPT !.calls = first.calls \o @]
        ELSE first

\* a variant whose backends re-render the document as for the browser
generate_pdf_RerenderForBrowser(self, dsk, html_file, output_name, use_playwright, renders) ==
    IF PdfBackend(use_playwright) = "none"
    THEN [self |-> self, disk |-> dsk, path |-> "None", rerendered |-> FALSE,
          calls |-> << >>]
    ELSE RenderPdf(self, dsk, html_file, output_name, PdfBackend(use_playwright), renders,
                   generate_html(self, dsk, "temp_for_pdf.html", FALSE))

\* generate_pdf(html_file, output_name, use_playwright); html_file is "None" or
\* the name of a file under output/html.  The result is the generator and the
\* disk after the call, the path returned ("None" for no path) and whether the
\* call wrote the print document.
generate_pdf(self, dsk, html_file, output_name, use_playwright, renders) ==
    IF PdfBackend(use_playwright) = "none"
    THEN [self |-> self, disk |-> dsk, path |-> "None", rerendered |-> FALSE,
          calls |-> << >>]
    ELSE RenderPdf(self, dsk, html_file, output_name, PdfBackend(use_playwright), renders,
                   generate_html(self, dsk, "temp_for_pdf.html", TRUE))

-----------------------------------------------------------------------------
(* The inputs: file names, files, directories and configurations *)

DotJpg == << ".", "j", "p", "g" >>
DotPng == << ".", "p", "n", "g" >>
DotJpeg == << ".", "j", "p", "e", "g" >>
DotJpgUpper == << ".", "J", "P", "G" >>
DotPdf == << ".", "p", "d", "f" >>

Digits == << "1", "2", "3", "4", "5", "6", "7", "8", "9", "a", "b", "c", "d", "e" >>

PosterName(ext) == << "p", "o", "s", "t", "e", "r" >> \o ext

PosterFiles ==
    { File(PosterName(DotJpg), TRUE, 2000, 3000),
      File(PosterName(DotJpg), TRUE, 800, 3000),
      File(PosterName(DotJpg), TRUE, 2000, 1200),
      File(PosterName(DotJpg), FALSE, 0, 0),
      File(PosterName(DotPng), TRUE, 2000, 3000),
      File(PosterName(DotJpeg), TRUE, 2000, 3000),
      File(PosterName(DotJpgUpper), TRUE, 2000, 3000) }

PosterDirs ==
    { NoDirectory, Directory(<< >>) }
    \cup { Directory(<< f >>) : f \in PosterFiles }
    \cup { Directory(<< File(PosterName(DotJpeg), TRUE, 2000, 3000),
                        File(PosterName(DotPng), TRUE, 800, 1200) >>),
           Directory(<< File(PosterName(DotJpg), TRUE, 2000, 3000),
                        File(PosterName(DotPng), TRUE, 800, 1200) >>) }

\* the i-th file of the stills directory, of a given kind
StillFile(i, kind) ==
    LET stem == << "s", Digits[i] >>
    IN  CASE kind = "ok" -> File(stem \o DotJpg, TRUE, 1920, 1080)
          [] kind = "png" -> File(stem \o DotPng, TRUE, 1280, 720)
          [] kind = "low" -> File(stem \o DotJpg, TRUE, 1000, 1080)
          [] kind = "bad" -> File(stem \o DotJpg, FALSE, 0, 0)
          [] kind = "jpeg" -> File(stem \o DotJpeg, TRUE, 1920, 1080)

\* how a stills directory starts; the rest of it is files of kind "ok"
StillHeads ==
    { << >>, << "low" >>, << "ok", "low" >>, << "bad", "low" >>, << "jpeg", "low" >>,
      << "png", "ok", "ok", "low" >>, << "low", "low" >>, << "jpeg" >> }

StillCounts == { 0 } \cup ((MinStillsCount - 1) .. MaxStills)

StillsDirectory(head, n) ==
    Directory([i \in 1 .. (IF n < Len(head) THEN Len(head) ELSE n) |->
                  StillFile(i, IF i <= Len(head) THEN head[i] ELSE "ok")])

StillsDirs ==
    { NoDirectory } \cup { StillsDirectory(h, n) : h \in StillHeads, n \in StillCounts }

Drama == << "D", "r", "a", "m", "a" >>

MetaFields == { "title", "logline", "synopsis", "genre", "runtime" }

MetaValues ==
    [ title : { "", "Film" }, logline : { "", "A logline" },
      synopsis : { 0, 150, MinSynopsisChars - 1, MinSynopsisChars, 400 },
      genre : { << >>, Drama }, runtime : { "", "90 minutes" } ]

Metas == { Restrict(v, S) : v \in MetaValues, S \in SUBSET MetaFields }

CompleteMetas ==
    { m \in MetaValues :
        /\ m.title # "" /\ m.logline # "" /\ m.synopsis # 0
        /\ m.genre # << >> /\ m.runtime # "" }

Contacts ==
    { [name |-> "Press office"], [email |-> ""], [email |-> "press@film.example"],
      [name |-> "Press office", email |-> "press@film.example"] }

\* the configurations the validator is run on: every choice of metadata and
\* contact, each section present or not
ValidationConfigs ==
    { Restrict([metadata |-> m, contact |-> c], S) :
        m \in Metas, c \in Contacts, S \in SUBSET { "metadata", "contact" } }

\* configurations that differ only in what the stills and poster rules do not read
BasicConfigs ==
    { [metadata |-> m, contact |-> c] :
        m \in CompleteMetas, c \in { [email |-> ""], [email |-> "press@film.example"] } }

ValidationDirs ==
    { ProjectDir(NoConfigFile, p, s, Directory(<< >>), Directory(<< >>)) :
        p \in PosterDirs, s \in StillsDirs }

BasicDirs ==
    { d \in ValidationDirs :
        /\ d.posters \in { NoDirectory,
                           Directory(<< File(PosterName(DotJpg), TRUE, 2000, 3000) >>) }
        /\ d.stills \in { NoDirectory, StillsDirectory(<< >>, MinStillsCount) } }

\* the pairs of a configuration and an asset tree the validator is run on
ValidationInputs ==
    (ValidationConfigs \X BasicDirs) \cup (BasicConfigs \X ValidationDirs)

-----------------------------------------------------------------------------
(* The EPKGenerator object and its steps *)

\* EPKGenerator.__init__
EPKGenerator(project_dir) ==
    [project_dir |-> project_dir, config |-> << >>, attrs |-> << >>]

NothingReturned == [call |-> "none", raised |-> FALSE, args |-> << >>, value |-> << >>]
Returned(call, args, value) == [call |-> call, raised |-> FALSE, args |-> args, value |-> value]
Raised(call, args, what) == [call |-> call, raised |-> TRUE, args |-> args, value |-> what]

\* no summary logged yet
NoSummary ==
    [printed |-> FALSE, total |-> 0, successful |-> 0, failed |-> 0, failed_films |-> << >>]

\* no batch run yet: nothing logged, no batch_results.json
NoBatch == [summary |-> NoSummary, results_file |-> [saved |-> FALSE, results |-> << >>]]

\* EPKGenerator.load_config: raises when the file is missing or is not JSON
LoadConfig ==
    LET file == disk[epk.project_dir].config_file
    IN  /\ IF file.kind = "json"
           THEN /\ epk' = [epk EXCEPT !.config = file.data]
                /\ returned' = Returned("load_config", << >>, file.data)
                /\ rendered' = IF file.data = epk.config THEN rendered ELSE << >>
           ELSE /\ epk' = epk
                /\ returned' = Raised("load_config", << >>, file.kind)
                /\ rendered' = rendered
        /\ UNCHANGED << modules, disk, ncalls, calls, results, batch, active_projects >>

\* EPKGenerator.validate_assets
ValidateAssets ==
    /\ returned' = IF ValidationRaises(epk.config)
                   THEN Raised("validate_assets", << >>, "AttributeError")
                   ELSE Returned("validate_assets", << >>,
                                 validate_assets(epk.config, disk[epk.project_dir],
                                                 PIL_AVAILABLE))
    /\ UNCHANGED << modules, disk, epk, rendered, ncalls, calls, results, batch, active_projects >>

InitValidate ==
    /\ PIL_AVAILABLE \in BOOLEAN
    /\ PLAYWRIGHT_AVAILABLE = FALSE
    /\ WEASYPRINT_AVAILABLE = FALSE
    /\ \E in \in ValidationInputs, kind \in { "json", "invalid" } :
          disk = [film |-> [in[2] EXCEPT !.config_file =
                                IF kind = "json" THEN ConfigFile(in[1])
                                ELSE InvalidConfigFile]]
    /\ epk = EPKGenerator("film")
    /\ returned = NothingReturned
    /\ rendered = << >>
    /\ ncalls = 0
    /\ calls = << >>
    /\ results = << >>
    /\ batch = NoBatch
    /\ active_projects = << >>

NextValidate == LoadConfig \/ ValidateAssets

\* the validator on every input: load the configuration, validate, in any order
SpecValidate == InitValidate /\ [][NextValidate]_vars

-----------------------------------------------------------------------------
(* The renderer on its inputs *)

EmptyDict == [k \in {} |-> ""]

PhotoName == << "d", ".", "j", "p", "g" >>
CrewPhoto == Path("", "", 0, CrewPath, PhotoName)
MissingPhoto == Path("", "", 0, CrewPath, << "x", ".", "j", "p", "g" >>)
ExternalPhoto == Path("", "/", 0, << "srv", "photos" >>, PhotoName)

Member(photo) ==
    [name |-> "Dana Director", role |-> "Director", bio |-> "A bio", photo |-> photo]
\* a member as the API template has it: every value empty
BlankMember == [name |-> "", role |-> "", bio |-> "", photo |-> NoPath]

Award == [festival_name |-> "Sundance", award |-> "Jury Award", year |-> "2025"]
Festival == [festival_name |-> "Tribeca", year |-> "2025", selection_type |-> "Premiere"]
Article == [title |-> "Article", publication |-> "Variety", url |-> "https://v.example"]

Review(rating) == [quote |-> "A masterpiece", source |-> "Variety", rating |-> rating]
UnratedReview == [quote |-> "A masterpiece", source |-> "Variety"]

\* a distribution section as the API template has it: every value empty
BlankDistribution ==
    [theatrical_release |-> "", digital_release |-> "", platforms |-> << >>,
     territories |-> << >>]

FullDistribution ==
    [theatrical_release |-> "March 15, 2025", digital_release |-> "May 1, 2025",
     platforms |-> << "Apple TV", "Prime Video" >>, territories |-> << "USA" >>]

TeamVariants ==
    { << >>, << Member(NoPath) >>, << Member(MissingPhoto) >>, << Member(ExternalPhoto) >>,
      << BlankMember >>, << [name |-> "Dana Director"], Member(CrewPhoto) >> }

ReviewsVariants ==
    { << >>, << UnratedReview >>, << Review("") >>, << Review("4"), UnratedReview >>,
      << Review("five") >> }

AwardsVariants == { << >>, << Award, Award, Award, Award, Award >> }

DistributionVariants ==
    { EmptyDict, BlankDistribution, [theatrical_release |-> "March 15, 2025"],
      [digital_release |-> "May 1, 2025"], [platforms |-> << "Apple TV" >>],
      [territories |-> << "USA" >>] }

RenderMeta(genre) ==
    [title |-> "Film", tagline |-> "A tagline", logline |-> "A logline", synopsis |-> 400,
     genre |-> genre, runtime |-> "90 minutes", rating |-> "NR"]

\* a configuration with every section filled in
BaseConfig ==
    [metadata |-> RenderMeta(Drama),
     team |-> << Member(CrewPhoto) >>,
     awards |-> << Award >>,
     festivals |-> << Festival >>,
     reviews |-> << Review("5") >>,
     press_coverage |-> << Article >>,
     distribution |-> FullDistribution,
     technical |-> [aspect_ratio |-> "16:9", sound |-> "5.1 Surround", color |-> "Color"],
     contact |-> [email |-> "press@film.example", name |-> "Press office"]]

OptionalSections ==
    { "team", "awards", "festivals", "reviews", "press_coverage", "distribution" }

\* every choice of which optional sections the configuration has
PresenceConfigs ==
    { Restrict(BaseConfig, S \cup { "metadata", "contact" }) : S \in SUBSET OptionalSections }

\* the configuration with one section changed
VariantConfigs ==
    { [BaseConfig EXCEPT !["team"] = v] : v \in TeamVariants }
    \cup { [BaseConfig EXCEPT !["reviews"] = v] : v \in ReviewsVariants }
    \cup { [BaseConfig EXCEPT !["awards"] = v] : v \in AwardsVariants }
    \cup { [BaseConfig EXCEPT !["festivals"] = << >>, !["awards"] = v] : v \in AwardsVariants }
    \cup { [BaseConfig EXCEPT !["distribution"] = v] : v \in DistributionVariants }
    \cup { [BaseConfig EXCEPT !["metadata"] = [title |-> "Film"]] }

RenderPosters == { NoDirectory, Directory(<< File(PosterName(DotJpg), TRUE, 2000, 3000) >>) }
RenderStills ==
    { NoDirectory, Directory(<< StillFile(2, "ok"), StillFile(1, "png") >>) }
RenderCrew == { NoDirectory, Directory(<< File(PhotoName, TRUE, 600, 600) >>) }
RenderDownloads ==
    { NoDirectory,
      Directory(<< File(<< "k", "i", "t" >> \o DotPdf, FALSE, 0, 0) >>) }

RenderDirs ==
    { ProjectDir(NoConfigFile, p, s, c, d) :
        p \in RenderPosters, s \in RenderStills, c \in RenderCrew, d \in RenderDownloads }

\* the project with one file in every asset directory, and the one with none
FullDir ==
    ProjectDir(NoConfigFile,
               Directory(<< File(PosterName(DotJpg), TRUE, 2000, 3000) >>),
               Directory(<< StillFile(2, "ok"), StillFile(1, "png") >>),
               Directory(<< File(PhotoName, TRUE, 600, 600) >>),
               Directory(<< File(<< "k", "i", "t" >> \o DotPdf, FALSE, 0, 0) >>))
BareDir == ProjectDir(NoConfigFile, NoDirectory, NoDirectory, NoDirectory, NoDirectory)
\* more stills than the gallery shows
CrowdedDir ==
    [FullDir EXCEPT !.stills = StillsDirectory(<< "png" >>, MaxGalleryStills + 1)]

\* the pairs of a configuration and an asset tree the renderer is run on
RenderInputs ==
    (PresenceConfigs \X { FullDir })
    \cup (VariantConfigs \X { FullDir })
    \cup ({ BaseConfig } \X (RenderDirs \cup { CrowdedDir }))

OutputNames == { "index.html", "temp_for_pdf.html" }

\* what generate_html first wrote in this path mode
Remember(history, for_pdf, doc) ==
    IF for_pdf \in DOMAIN history THEN history
    ELSE [k \in DOMAIN history \cup { for_pdf } |->
             IF k = for_pdf THEN doc ELSE history[k]]

\* a call of EPKGenerator.generate_html
GenerateHtml ==
    /\ ncalls < MaxCalls
    /\ \E output_name \in OutputNames, for_pdf \in BOOLEAN :
          \E r \in { generate_html(epk, disk, output_name, for_pdf) } :
              LET args == [output_name |-> output_name, for_pdf |-> for_pdf]
              IN  /\ epk' = r.self
                  /\ disk' = r.disk
                  /\ returned' =
                         IF r.raised THEN Raised("generate_html", args, "exception")
                         ELSE Returned("generate_html", args, r.path)
                  /\ rendered' =
                         IF r.raised THEN rendered
                         ELSE Remember(rendered, for_pdf,
                                       r.disk[epk.project_dir].html[output_name])
    /\ ncalls' = ncalls + 1
    /\ calls' = << >>
    /\ UNCHANGED << modules, results, batch, active_projects >>

\* a call of EPKGenerator.generate_pdf, on no file or on the browser HTML
GeneratePdf ==
    /\ ncalls < MaxCalls
    /\ \E html_file \in { "None", "index.html" }, use_playwright \in BOOLEAN,
          renders \in SUBSET Backends :
          \E r \in { generate_pdf(epk, disk, html_file, "epk.pdf", use_playwright, renders) } :
              LET args == [html_file |-> html_file, use_playwright |-> use_playwright]
              IN  /\ epk' = r.self
                  /\ disk' = r.disk
                  /\ returned' = Returned("generate_pdf", args, r.path)
                  /\ calls' = r.calls
                  /\ rendered' =
                         IF r.rerendered
                         THEN Remember(rendered, TRUE,
                                       r.disk[epk.project_dir].html["temp_for_pdf.html"])
                         ELSE rendered
    /\ ncalls' = ncalls + 1
    /\ UNCHANGED << modules, results, batch, active_projects >>

\* EPKGenerator(project_dir) followed by load_config, as every caller does
LoadedGenerator(project_dir, config) == [EPKGenerator(project_dir) EXCEPT !.config = config]

\* the generator constructed on a command-line or an API project directory, its
\* configuration loaded (or, on the full configuration, not loaded yet)
InitRender ==
    /\ PIL_AVAILABLE = FALSE
    /\ PLAYWRIGHT_AVAILABLE \in BOOLEAN
    /\ WEASYPRINT_AVAILABLE \in BOOLEAN
    /\ \E in \in RenderInputs, loaded \in BOOLEAN, project_dir \in { "film", "id1" } :
          /\ loaded \/ in = << BaseConfig, FullDir >>
          /\ project_dir = "film" \/ in[1] = BaseConfig
          /\ disk = [p \in { project_dir } |->
                        [in[2] EXCEPT !.config_file = ConfigFile(in[1])]]
          /\ epk = IF loaded THEN LoadedGenerator(project_dir, in[1])
                   ELSE EPKGenerator(project_dir)
    /\ returned = NothingReturned
    /\ rendered = << >>
    /\ ncalls = 0
    /\ calls = << >>
    /\ results = << >>
    /\ batch = NoBatch
    /\ active_projects = << >>

NextRender == GenerateHtml \/ GeneratePdf

\* the renderer: HTML and PDF calls in any order
SpecRender == InitRender /\ [][NextRender]_vars

-----------------------------------------------------------------------------
(* Properties of validate_assets, under SpecValidate *)

\* how often msg occurs in a list of messages
Count(list, msg) == Cardinality({ i \in DOMAIN list : list[i] = msg })

\* name ends with the extension ext
HasSuffix(name, ext) ==
    /\ Len(name) >= Len(ext)
    /\ SubSeq(name, Len(name) - Len(ext) + 1, Len(name)) = ext

\* the validator has just returned
Validated == returned.call = "validate_assets" /\ ~returned.raised

\* the configuration and the project directory the validator read
ValidatedConfig == epk.config
ValidatedDir == disk[epk.project_dir]
ValidatedMeta == Get(ValidatedConfig, "metadata", << >>)

\* the required metadata fields that are missing: not there, or empty
MissingFields ==
    { f \in MetaFields :
        \/ f \notin DOMAIN ValidatedMeta
        \/ (f = "synopsis" /\ ValidatedMeta[f] = 0)
        \/ (f = "genre" /\ ValidatedMeta[f] = << >>)
        \/ (f \in { "title", "logline", "runtime" } /\ ValidatedMeta[f] = "") }

FieldErrorOf(f) ==
    CASE f = "title" -> "Missing required field: Film title"
      [] f = "logline" -> "Missing required field: Logline"
      [] f = "synopsis" -> "Missing required field: Synopsis"
      [] f = "genre" -> "Missing required field: Genre"
      [] f = "runtime" -> "Missing required field: Runtime"

\* C2: in every ValidationResult that validate_assets returns, is_valid is
\* true exactly when the errors list is empty, whatever the warnings list holds.
C2_IsValidIffNoErrors ==
    Validated => (returned.value.is_valid <=> returned.value.errors = << >>)

\* a result with warnings and no error, which is valid
C2_Witness ==
    /\ Validated
    /\ returned.value.warnings # << >>
    /\ returned.value.errors = << >>
    /\ returned.value.is_valid

\* C3: when some of title, logline, synopsis, genre, runtime are missing (absent
\* or empty), the errors hold exactly one 'Missing required field' error for each
\* missing field, none for a field that is present, and is_valid is false.
C3_OneErrorPerMissingField ==
    (Validated /\ MissingFields # {}) =>
        /\ \A f \in MetaFields :
              Count(returned.value.errors, FieldErrorOf(f)) =
                  IF f \in MissingFields THEN 1 ELSE 0
        /\ Cardinality({ i \in DOMAIN returned.value.errors :
                           returned.value.errors[i] \in
                               { FieldErrorOf(f) : f \in MetaFields } })
              = Cardinality(MissingFields)
        /\ ~returned.value.is_valid

\* one field absent and another one empty: two errors, for these two
C3_Witness ==
    /\ Validated
    /\ MissingFields = { "title", "genre" }
    /\ "title" \notin DOMAIN ValidatedMeta
    /\ "genre" \in DOMAIN ValidatedMeta
    /\ Count(returned.value.errors, FieldErrorOf("title")) = 1
    /\ Count(returned.value.errors, FieldErrorOf("genre")) = 1

\* the files of a directory that are .jpg or .png images
ImagesOf(dir) ==
    SelectSeq(dir.files, LAMBDA f : HasSuffix(f.name, DotJpg) \/ HasSuffix(f.name, DotPng))

\* all five fields, a poster, 8 or more stills that are all wide enough, an email
CompleteProject ==
    /\ MissingFields = {}
    /\ ValidatedDir.posters.exists
    /\ ImagesOf(ValidatedDir.posters) # << >>
    /\ ValidatedDir.stills.exists
    /\ Len(ImagesOf(ValidatedDir.stills)) >= 8
    /\ \A i \in DOMAIN ImagesOf(ValidatedDir.stills) :
          /\ ImagesOf(ValidatedDir.stills)[i].readable
          /\ ImagesOf(ValidatedDir.stills)[i].width >= 1280
    /\ "contact" \in DOMAIN ValidatedConfig
    /\ "email" \in DOMAIN ValidatedConfig["contact"]
    /\ ValidatedConfig["contact"]["email"] # ""

\* the poster the validator looks at cannot be opened or is below 1000x1500
PosterLowOrUnreadable ==
    LET img == ImagesOf(ValidatedDir.posters)[1]
    IN  ~img.readable \/ img.width < 1000 \/ img.height < 1500

\* C4 as stated: for a complete project, is_valid with zero errors, and
\* warnings only if the synopsis is shorter than 200 characters.
C4_WarningsOnlyForShortSynopsis ==
    (Validated /\ CompleteProject) =>
        /\ returned.value.is_valid
        /\ returned.value.errors = << >>
        /\ (returned.value.warnings # << >> => ValidatedMeta["synopsis"] < 200)

\* C4, amended: for a complete project (poster and stills being .jpg or .png
\* files), is_valid with zero errors, and warnings only if the synopsis is
\* shorter than 200 characters or the poster found first is below 1000x1500 or
\* cannot be read.
C4_WarningsOnlyForSynopsisOrPoster ==
    (Validated /\ CompleteProject) =>
        /\ returned.value.is_valid
        /\ returned.value.errors = << >>
        /\ (returned.value.warnings # << >> =>
               \/ ValidatedMeta["synopsis"] < 200
               \/ (PIL_AVAILABLE /\ PosterLowOrUnreadable))

\* a complete project with a long synopsis and a small poster: valid, one warning
C4_Witness ==
    /\ Validated
    /\ CompleteProject
    /\ ValidatedMeta["synopsis"] >= 200
    /\ returned.value.is_valid
    /\ Len(returned.value.warnings) = 1
    /\ returned.value.warnings[1].text = "Poster resolution low"

\* the configuration has no contact email: no section, no key, or an empty value
NoContactEmail ==
    \/ "contact" \notin DOMAIN ValidatedConfig
    \/ "email" \notin DOMAIN ValidatedConfig["contact"]
    \/ ValidatedConfig["contact"]["email"] = ""

\* C5: without a contact email (section absent, key absent or value empty) the
\* errors hold 'Contact email required' exactly once and is_valid is false;
\* with an email the errors never hold it.
C5_ContactEmailRequired ==
    Validated =>
        /\ Count(returned.value.errors, "Contact email required") =
              IF NoContactEmail THEN 1 ELSE 0
        /\ (NoContactEmail => ~returned.value.is_valid)

\* a contact section without the email key, nothing else wrong: the one error
C5_Witness ==
    /\ Validated
    /\ "contact" \in DOMAIN ValidatedConfig
    /\ "email" \notin DOMAIN ValidatedConfig["contact"]
    /\ returned.value.errors = << "Contact email required" >>
    /\ ~returned.value.is_valid


-----------------------------------------------------------------------------
(* Properties of the renderer, under SpecRender *)

\* generate_html has just returned the path of the document it wrote
Generated == returned.call = "generate_html" /\ ~returned.raised

\* the document the last generate_html call wrote
GeneratedDoc == disk[epk.project_dir].html[returned.value]

\* generate_pdf has just rendered the print document itself
Rerendered ==
    /\ returned.call = "generate_pdf"
    /\ returned.args.html_file = "None"
    /\ returned.value # "None"

\* the elements of a document that refer to an asset file
AssetRefs(doc) == { doc.body[i].src : i \in { j \in DOMAIN doc.body : doc.body[j].src # NoPath } }

IsFileUri(p) == p.scheme = "file" /\ p.anchor = "/" /\ p.up = 0
IsRelativePath(p) == p.scheme = "" /\ p.anchor = ""

AssetKinds == { "poster", "team-photo", "still", "download" }

\* the kinds of asset a document refers to
KindsReferred(doc) ==
    { doc.body[i].name : i \in { j \in DOMAIN doc.body : doc.body[j].src # NoPath } }

\* C6: every asset reference of a document rendered with for_pdf=true is an
\* absolute file URI, and every asset reference of a document rendered with
\* for_pdf=false is a relative path; the print document generate_pdf renders
\* for itself holds file URIs only.
C6_PathModeFollowsForPdf ==
    /\ Generated =>
          \A src \in AssetRefs(GeneratedDoc) :
              IF returned.args.for_pdf
              THEN IsFileUri(src) /\ ~IsRelativePath(src)
              ELSE IsRelativePath(src) /\ ~IsFileUri(src)
    /\ Rerendered =>
          \A src \in AssetRefs(disk[epk.project_dir].html["temp_for_pdf.html"]) :
              IsFileUri(src)

\* a print document that refers to a poster, a team photo, a still and a download
C6_Witness ==
    /\ Generated
    /\ returned.args.for_pdf
    /\ KindsReferred(GeneratedDoc) = AssetKinds

\* the headings of the sections, in the order of the template
SectionOrder ==
    << "cover", "Synopsis", "Press & Reviews", "Festivals & Awards", "Press Coverage",
       "Cast & Crew", "Distribution & Availability", "Technical Information",
       "Production Stills", "Download Press Materials", "Contact" >>

\* the headings of the sections of a document, as they appear
SectionsOf(doc) ==
    LET heads == SelectSeq(doc.body, LAMBDA e : e.kind = "section")
    IN  [i \in DOMAIN heads |-> heads[i].name]

Position(heading) == CHOOSE i \in DOMAIN SectionOrder : SectionOrder[i] = heading

\* the headings are headings of the template, each at most once, in its order
InTemplateOrder(headings) ==
    /\ \A i \in DOMAIN headings : headings[i] \in Range(SectionOrder)
    /\ \A i, j \in DOMAIN headings :
          i < j => Position(headings[i]) < Position(headings[j])

\* the distribution data names a release date, a platform or a territory
DistributionInfo(config) ==
    LET dist == Get(config, "distribution", EmptyDict)
    IN  \/ Get(dist, "theatrical_release", "") # ""
        \/ Get(dist, "digital_release", "") # ""
        \/ Get(dist, "platforms", << >>) # << >>
        \/ Get(dist, "territories", << >>) # << >>

\* C7: a generated document has no reviews section without reviews, no
\* festivals/awards section without festivals and awards, no team section
\* without team members and no distribution section without distribution
\* information, and its sections are in the order of the template.
C7_EmptySectionsOmitted ==
    Generated =>
        LET headings == Range(SectionsOf(GeneratedDoc))
        IN  /\ Get(epk.config, "reviews", << >>) = << >>
                  => "Press & Reviews" \notin headings
            /\ (Get(epk.config, "festivals", << >>) = << >>
                 /\ Get(epk.config, "awards", << >>) = << >>)
                  => "Festivals & Awards" \notin headings
            /\ Get(epk.config, "team", << >>) = << >> => "Cast & Crew" \notin headings
            /\ ~DistributionInfo(epk.config)
                  => "Distribution & Availability" \notin headings
            /\ InTemplateOrder(SectionsOf(GeneratedDoc))

\* C9: the file a generate_html call writes equals the document first written
\* for the same configuration, asset tree and for_pdf value.
C9_GenerateHtmlIdempotent ==
    Generated => GeneratedDoc = rendered[returned.args.for_pdf]

\* two successful calls with for_pdf=false on a loaded configuration have written
\* both output files
C9_Witness ==
    /\ Generated
    /\ "team" \in DOMAIN epk.config
    /\ ncalls = 2
    /\ ~returned.args.for_pdf
    /\ DOMAIN rendered = { FALSE }
    /\ DOMAIN disk[epk.project_dir].html = OutputNames

-----------------------------------------------------------------------------
(* Theme selection on many genres *)

\* the genre words: the keys of the table and a word that is no key
GenreWords ==
    { GENRE_COLORS[i].key : i \in DOMAIN GENRE_COLORS }
    \cup { << "w", "e", "s", "t", "e", "r", "n" >> }

\* a word with its first letter, and every letter after a hyphen, in upper case
Capitalized(w) ==
    [i \in DOMAIN w |-> IF i = 1 \/ w[i - 1] = "-" THEN Upper(<< w[i] >>)[1] ELSE w[i]]

\* a word with every second letter in upper case
Alternating(w) == [i \in DOMAIN w |-> IF i % 2 = 0 THEN Upper(<< w[i] >>)[1] ELSE w[i]]

\* the ways a word is written
Spellings(w) == { w, Upper(w), Capitalized(w), Alternating(w) }

SciFiThriller ==
    << "S", "c", "i", "-", "F", "i", " ", "T", "h", "r", "i", "l", "l", "e", "r" >>

\* one word, two words, a word inside a longer one, no genre
Genres ==
    UNION { Spellings(w) : w \in GenreWords }
    \cup { Capitalized(a) \o << " " >> \o Capitalized(b) : a, b \in GenreWords }
    \cup { Upper(a) \o << "/" >> \o b : a, b \in GenreWords }
    \cup { << "x" >> \o w \o << "y" >> : w \in GenreWords }
    \cup { << >> }

\* a configuration with nothing but the metadata and the contact
ThemeConfig(genre) ==
    [metadata |-> RenderMeta(genre), contact |-> BaseConfig["contact"]]

\* the generator loaded with a configuration of some genre, or of none
InitTheme ==
    /\ PIL_AVAILABLE = FALSE
    /\ PLAYWRIGHT_AVAILABLE = FALSE
    /\ WEASYPRINT_AVAILABLE = FALSE
    /\ \E config \in { ThemeConfig(g) : g \in Genres }
                     \cup { [ThemeConfig(<< >>) EXCEPT !["metadata"] = [title |-> "Film"]] } :
          /\ disk = [film |-> [BareDir EXCEPT !.config_file = ConfigFile(config)]]
          /\ epk = LoadedGenerator("film", config)
    /\ returned = NothingReturned
    /\ rendered = << >>
    /\ ncalls = 0
    /\ calls = << >>
    /\ results = << >>
    /\ batch = NoBatch
    /\ active_projects = << >>

NextTheme == GenerateHtml

\* generate_html on every genre
SpecTheme == InitTheme /\ [][NextTheme]_vars

\* the genre the loaded configuration gives
ConfiguredGenre == Get(Get(epk.config, "metadata", EmptyDict), "genre", << >>)

\* the entries of the table whose key occurs in the genre, letter case aside
MatchingEntries ==
    { i \in DOMAIN GENRE_COLORS : Contains(Upper(ConfiguredGenre), Upper(GENRE_COLORS[i].key)) }

HorrorPalette == [primary |-> "#8B0000", secondary |-> "#2C2C2C", accent |-> "#FF4444"]
SciFiPalette == [primary |-> "#1E3A8A", secondary |-> "#0F172A", accent |-> "#60A5FA"]

\* C8: the document has the palette of the first entry of the genre table
\* whose key occurs in the configured genre in any letter case, and the
\* default palette when no key occurs in it; 'Sci-Fi Thriller' gets the sci-fi
\* palette and every genre containing 'horror' in any case the horror palette.
C8_FirstMatchingGenreWins ==
    Generated =>
        /\ GeneratedDoc.colors =
               IF MatchingEntries = {} THEN DEFAULT_COLORS
               ELSE GENRE_COLORS[CHOOSE i \in MatchingEntries :
                                    \A k \in MatchingEntries : i <= k].colors
        /\ ConfiguredGenre = SciFiThriller => GeneratedDoc.colors = SciFiPalette
        /\ Contains(Upper(ConfiguredGenre), << "H", "O", "R", "R", "O", "R" >>)
              => GeneratedDoc.colors = HorrorPalette

\* 'Sci-Fi Thriller', which holds two keys of the table, rendered in the
\* sci-fi palette
C8_Witness ==
    /\ Generated
    /\ ConfiguredGenre = SciFiThriller
    /\ Cardinality(MatchingEntries) = 2
    /\ GeneratedDoc.colors = SciFiPalette

-----------------------------------------------------------------------------
(* The flows: main, BatchProcessor and the generate endpoint *)

\* one invocation of a method in a flow, with its outcome
Event(project, method, raised, value) ==
    [project |-> project, method |-> method, raised |-> raised, value |-> value]

\* a variant in which a failed validation stops nothing
Invalid_Never(validation) == FALSE

\* if not validation.is_valid: the test that stops each flow
Invalid(validation) == ~validation.is_valid

\* the directory of a project, which may not exist
DirOf(dsk, project) == IF project \in DOMAIN dsk THEN dsk[project] ELSE NoProjectDir

\* setup_project_structure: mkdir(parents=True, exist_ok=True) on every folder
setup_project_structure(dir) ==
    [dir EXCEPT !.exists = TRUE, !.posters.exists = TRUE, !.stills.exists = TRUE,
                !.crew.exists = TRUE, !.downloads.exists = TRUE]

\* the configuration generate_config_template writes: metadata only
TemplateConfig ==
    [metadata |->
        [title |-> "Your Film Title", tagline |-> "A compelling tagline",
         logline |-> "One or two sentences that capture the essence of your film",
         synopsis |-> 92, genre |-> Drama, runtime |-> "90 minutes", rating |-> "NR",
         release_date |-> "2025", language |-> "English", country |-> "USA",
         email |-> "contact@filmhub.com", phone |-> "(555) 123-4567",
         website |-> "https://filmhub.com"]]

\* what main leaves: the disk, the methods invoked, and what it reports or raises
Outcome(dsk, trace, raised, value) ==
    [disk |-> dsk, calls |-> trace, raised |-> raised, value |-> value]

\* what main reports
MainValue(outcome, html, pdf) == [outcome |-> outcome, html |-> html, pdf |-> pdf]

\* main after generate_html returned and generate_pdf() was called
MainPdf(project, trace, gen, pdf) ==
    Outcome(pdf.disk,
            trace \o << Event(project, "generate_pdf", FALSE, pdf.path) >>,
            FALSE, MainValue("complete", gen.path, pdf.path))

\* a variant of main that does not stop after a validation it was asked for
ValidateFlag_Ignored(args) == FALSE

\* if args.validate: main returns once the validation is reported
ValidateFlag(args) == args.validate

\* main after load_config and validate_assets returned; gen is the outcome of
\* generate_html(args.output)
MainValidated(self, dsk, args, renders, validation, gen) ==
    LET project == self.project_dir
        trace == << Event(project, "load_config", FALSE, "config"),
                    Event(project, "validate_assets", FALSE, validation) >>
        html == Event(project, "generate_html", gen.raised, gen.path)
    IN  IF ValidateFlag(args)
        THEN Outcome(dsk, trace, FALSE, MainValue("validated", "None", "None"))
        ELSE IF Invalid(validation)
        THEN Outcome(dsk, trace, FALSE, MainValue("cannot generate", "None", "None"))
        ELSE IF gen.raised
        THEN Outcome(gen.disk, trace \o << html >>, TRUE,
                     MainValue("exception", "None", "None"))
        ELSE IF ~args.pdf
        THEN Outcome(gen.disk, trace \o << html >>, FALSE,
                     MainValue("complete", gen.path, "None"))
        ELSE MainPdf(project, trace \o << html >>, gen,
                     generate_pdf(gen.self, gen.disk, "None", "epk.pdf", TRUE, renders))

\* main after the setup step, on the disk it left
MainSingle(args, dsk, renders, trace) ==
    LET project == args.project_dir
        dir == DirOf(dsk, project)
        file == dir.config_file
    IN  IF args.template
        THEN IF dir.exists
             THEN Outcome([dsk EXCEPT ![project].config_file = ConfigFile(TemplateConfig)],
                          trace \o << Event(project, "generate_config_template", FALSE,
                                            "film_config.json") >>,
                          FALSE, MainValue("template", "None", "None"))
             ELSE Outcome(dsk,
                          trace \o << Event(project, "generate_config_template", TRUE,
                                            "FileNotFoundError") >>,
                          TRUE, MainValue("FileNotFoundError", "None", "None"))
        ELSE IF ~args.config
        THEN Outcome(dsk, trace, FALSE, MainValue("nothing", "None", "None"))
        ELSE IF file.kind # "json"
        THEN Outcome(dsk,
                     trace \o << Event(project, "load_config", TRUE, file.kind) >>,
                     TRUE, MainValue(file.kind, "None", "None"))
        ELSE IF ValidationRaises(file.data)
        THEN Outcome(dsk,
                     trace \o << Event(project, "load_config", FALSE, "config"),
                                 Event(project, "validate_assets", TRUE, "AttributeError") >>,
                     TRUE, MainValue("AttributeError", "None", "None"))
        ELSE MainValidated(LoadedGenerator(project, file.data), dsk, args, renders,
                           validate_assets(file.data, dir, PIL_AVAILABLE),
                           generate_html(LoadedGenerator(project, file.data), dsk,
                                         args.output, FALSE))

\* main without --batch: args holds the project directory and the flags
main(args, dsk, renders) ==
    IF args.setup
    THEN MainSingle(args,
                    [p \in DOMAIN dsk \cup { args.project_dir } |->
                        IF p = args.project_dir
                        THEN setup_project_structure(DirOf(dsk, p)) ELSE dsk[p]],
                    renders,
                    << Event(args.project_dir, "setup_project_structure", FALSE, "created") >>)
    ELSE MainSingle(args, dsk, renders, << >>)

\* the result dict of _process_single
Result(film, success, html_path, pdf_path, errors, warnings) ==
    [film |-> film, success |-> success, html_path |-> html_path, pdf_path |-> pdf_path,
     errors |-> errors, warnings |-> warnings]

\* what _process_single leaves: the disk, the methods invoked, the result dict
Processed(dsk, trace, result) == [disk |-> dsk, calls |-> trace, result |-> result]

\* _process_single after generate_html returned and generate_pdf() was called
ProcessPdf(film, trace, validation, gen, pdf) ==
    Processed(pdf.disk, trace \o << Event(film, "generate_pdf", FALSE, pdf.path) >>,
              Result(film, TRUE, gen.path, pdf.path, validation.errors,
                     validation.warnings))

\* _process_single after load_config and validate_assets returned; gen is the
\* outcome of generate_html()
ProcessValidated(film, dsk, renders, validation, gen) ==
    LET trace == << Event(film, "load_config", FALSE, "config"),
                    Event(film, "validate_assets", FALSE, validation) >>
        html == Event(film, "generate_html", gen.raised, gen.path)
    IN  IF Invalid(validation)
        THEN Processed(dsk, trace,
                       Result(film, FALSE, "None", "None", validation.errors,
                              validation.warnings))
        ELSE IF gen.raised
        THEN Processed(gen.disk, trace \o << html >>,
                       Result(film, FALSE, "None", "None",
                              validation.errors \o << "exception" >>, validation.warnings))
        ELSE ProcessPdf(film, trace \o << html >>, validation, gen,
                        generate_pdf(gen.self, gen.disk, "None", "epk.pdf", TRUE, renders))

\* BatchProcessor._process_single(project_dir): every exception is caught and
\* its text appended to the errors of the result
_process_single(film, dsk, renders) ==
    LET dir == DirOf(dsk, film)
        file == dir.config_file
    IN  IF file.kind # "json"
        THEN Processed(dsk, << Event(film, "load_config", TRUE, file.kind) >>,
                       Result(film, FALSE, "None", "None", << file.kind >>, << >>))
        ELSE IF ValidationRaises(file.data)
        THEN Processed(dsk, << Event(film, "load_config", FALSE, "config"),
                               Event(film, "validate_assets", TRUE, "AttributeError") >>,
                       Result(film, FALSE, "None", "None", << "AttributeError" >>, << >>))
        ELSE ProcessValidated(film, dsk, renders,
                              validate_assets(file.data, dir, PIL_AVAILABLE),
                              generate_html(LoadedGenerator(film, file.data), dsk,
                                            "index.html", FALSE))

\* a variant that registers a new project under another status
Registered_Pending(film_title, assets_saved) ==
    [created_at |-> "now", film_title |-> film_title, status |-> "pending",
     assets |-> assets_saved]

\* the entry create_project puts into active_projects
Registered(film_title, assets_saved) ==
    [created_at |-> "now", film_title |-> film_title, status |-> "created",
     assets |-> assets_saved]

\* the HTTP response of an endpoint that answers with a status and a detail
Response(status_code, detail, errors) ==
    [status_code |-> status_code, detail |-> detail, errors |-> errors]

\* the answer of a successful create or generate request; "None" for the
\* field the request leaves out
ProjectResponse(project_id, status, message, validation, download_urls) ==
    [status_code |-> 200, project_id |-> project_id, status |-> status,
     message |-> message, validation |-> validation, download_urls |-> download_urls]

\* a variant that also announces a PDF download
DownloadUrls_WithPdf(project_id) ==
    [file_type \in { "html", "pdf" } |-> [project_id |-> project_id, file_type |-> file_type]]

\* download_urls of the generate endpoint: /api/projects/{project_id}/download/html
DownloadUrls(project_id) ==
    [file_type \in { "html" } |-> [project_id |-> project_id, file_type |-> file_type]]

\* what an endpoint leaves: disk, registry, methods invoked, response
Handled(dsk, registry, trace, response) ==
    [disk |-> dsk, active_projects |-> registry, calls |-> trace, response |-> response]

\* the registry with the entry of a project, if it has one, marked generated
MarkedGenerated(registry, project_id) ==
    [id \in DOMAIN registry |->
        IF id = project_id
        THEN [k \in DOMAIN registry[id] \cup { "status", "generated_at" } |->
                 CASE k = "status" -> "generated"
                   [] k = "generated_at" -> "now"
                   [] OTHER -> registry[id][k]]
        ELSE registry[id]]

\* a variant that updates the registry before generate_html is called
EpkValidated_UpdatesFirst(project_id, dsk, registry, generate_pdf_flag, validation, gen) ==
    LET trace == << Event(project_id, "load_config", FALSE, "config"),
                    Event(project_id, "validate_assets", FALSE, validation) >>
        html == Event(project_id, "generate_html", gen.raised, gen.path)
    IN  IF Invalid(validation)
        THEN Handled(dsk, registry, trace, Response(400, "Validation failed", validation.errors))
        ELSE IF gen.raised
        THEN Handled(gen.disk, MarkedGenerated(registry, project_id), trace \o << html >>,
                     Response(500, "exception", << >>))
        ELSE Handled(gen.disk, MarkedGenerated(registry, project_id), trace \o << html >>,
                     ProjectResponse(project_id, "generated",
                                     "EPK generated successfully (HTML only)",
                                     "None", DownloadUrls(project_id)))

\* generate_epk after load_config and validate_assets returned; gen is the
\* outcome of generate_html()
EpkValidated(project_id, dsk, registry, generate_pdf_flag, validation, gen) ==
    LET trace == << Event(project_id, "load_config", FALSE, "config"),
                    Event(project_id, "validate_assets", FALSE, validation) >>
        html == Event(project_id, "generate_html", gen.raised, gen.path)
    IN  IF Invalid(validation)
        THEN Handled(dsk, registry, trace, Response(400, "Validation failed", validation.errors))
        ELSE IF gen.raised
        THEN Handled(gen.disk, registry, trace \o << html >>,
                     Response(500, "exception", << >>))
        ELSE Handled(gen.disk, MarkedGenerated(registry, project_id), trace \o << html >>,
                     ProjectResponse(project_id, "generated",
                                     IF generate_pdf_flag
                                     THEN "EPK generated successfully (HTML only). PDF note"
                                     ELSE "EPK generated successfully (HTML only)",
                                     "None", DownloadUrls(project_id)))

\* POST /api/projects/{project_id}/generate
generate_epk(project_id, generate_pdf_flag, dsk, registry) ==
    LET dir == DirOf(dsk, project_id)
        file == dir.config_file
    IN  IF ~dir.exists
        THEN Handled(dsk, registry, << >>, Response(404, "Project not found", << >>))
        ELSE IF file.kind = "missing"
        THEN Handled(dsk, registry, << >>,
                     Response(400, "Configuration file not found", << >>))
        ELSE IF file.kind # "json"
        THEN Handled(dsk, registry,
                     << Event(project_id, "load_config", TRUE, file.kind) >>,
                     Response(500, file.kind, << >>))
        ELSE IF ValidationRaises(file.data)
        THEN Handled(dsk, registry,
                     << Event(project_id, "load_config", FALSE, "config"),
                        Event(project_id, "validate_assets", TRUE, "AttributeError") >>,
                     Response(500, "AttributeError", << >>))
        ELSE EpkValidated(project_id, dsk, registry, generate_pdf_flag,
                          validate_assets(file.data, dir, PIL_AVAILABLE),
                          generate_html(LoadedGenerator(project_id, file.data), dsk,
                                        "index.html", FALSE))

\* the entries of the root directory, in the order iterdir() lists them
AllNames == << "film", "id1", "id2", "noir", "short" >>
Listing(dsk) == SelectSeq(AllNames, LAMBDA name : name \in DOMAIN dsk)

\* BatchProcessor.find_projects: the directories that hold a film_config.json
find_projects(dsk) ==
    SelectSeq(Listing(dsk), LAMBDA name : dsk[name].exists /\ dsk[name].config_file.kind # "missing")

\* the batch so far: the disk, the results and the methods invoked
Batch(dsk, list, trace) == [disk |-> dsk, results |-> list, calls |-> trace]

RECURSIVE StopFrom(_, _, _, _)
\* a variant of the loop that gives up at the first project that fails
StopRest(i, projects, renders, one) ==
    IF ~one.result.success THEN Batch(one.disk, << one.result >>, one.calls)
    ELSE Batch(StopFrom(i + 1, projects, one.disk, renders).disk,
               << one.result >> \o StopFrom(i + 1, projects, one.disk, renders).results,
               one.calls \o StopFrom(i + 1, projects, one.disk, renders).calls)

StopFrom(i, projects, dsk, renders) ==
    IF i > Len(projects) THEN Batch(dsk, << >>, << >>)
    ELSE StopRest(i, projects, renders, _process_single(projects[i], dsk, renders))

ProcessFrom_StopAtFailure(i, projects, dsk, renders) == StopFrom(i, projects, dsk, renders)

RECURSIVE ProcessFrom(_, _, _, _)
\* the results of the projects after the i-th, appended to the i-th one's
ProcessRest(one, rest) ==
    Batch(rest.disk, << one.result >> \o rest.results, one.calls \o rest.calls)

\* one turn of the loop of process_all: the i-th project, then the rest
ProcessNext(i, projects, renders, one) ==
    ProcessRest(one, ProcessFrom(i + 1, projects, one.disk, renders))

\* the loop of process_all, from the i-th project on
ProcessFrom(i, projects, dsk, renders) ==
    IF i > Len(projects) THEN Batch(dsk, << >>, << >>)
    ELSE ProcessNext(i, projects, renders, _process_single(projects[i], dsk, renders))

\* _print_summary: the counts and the failed films that are logged
_print_summary(list) ==
    LET total == Len(list)
        successful == Cardinality({ i \in DOMAIN list : list[i].success })
        failures == SelectSeq(list, LAMBDA r : ~r.success)
    IN  [printed |-> TRUE, total |-> total, successful |-> successful,
         failed |-> total - successful,
         failed_films |-> [i \in DOMAIN failures |->
                              [film |-> failures[i].film, errors |-> failures[i].errors]]]

\* process_all after the loop: self.results extended, the summary logged
ProcessedAll(list, summary, run) ==
    [disk |-> run.disk, results |-> list \o run.results, calls |-> run.calls,
     summary |-> _print_summary(list \o run.results), value |-> list \o run.results]

\* BatchProcessor.process_all, on a processor whose results are list; summary
\* is the summary logged last
process_all(list, summary, dsk, renders) ==
    IF find_projects(dsk) = << >>
    THEN [disk |-> dsk, results |-> list, calls |-> << >>, summary |-> summary,
          value |-> << >>]
    ELSE ProcessedAll(list, summary, ProcessFrom(1, find_projects(dsk), dsk, renders))

-----------------------------------------------------------------------------
(* The single-project flows on one project directory *)

\* a project directory holding a configuration
Project(config, dir) == [dir EXCEPT !.config_file = ConfigFile(config)]

\* eight stills, a poster, a crew photo and a download
CleanDir == [FullDir EXCEPT !.stills = StillsDirectory(<< >>, MinStillsCount)]

\* a directory with a poster and nothing else
PosterDir ==
    ProjectDir(NoConfigFile, Directory(<< File(PosterName(DotJpg), TRUE, 2000, 3000) >>),
               NoDirectory, NoDirectory, NoDirectory)

\* valid, without and with warnings
CleanProject == Project(BaseConfig, CleanDir)
WarnedProject == Project(BaseConfig, FullDir)
\* invalid: no contact email; no contact section and no poster
NoEmailProject == Project([BaseConfig EXCEPT !["contact"] = [name |-> "Press office"]], FullDir)
TemplateProject == Project(TemplateConfig, BareDir)
\* valid, and each raises in generate_html: a rating that is no number, a
\* photo outside the project directory
BadRatingProject == Project([BaseConfig EXCEPT !["reviews"] = << Review("five") >>], FullDir)
ExternalPhotoProject ==
    Project([BaseConfig EXCEPT !["team"] = << Member(ExternalPhoto) >>], CleanDir)
\* a configuration file that is not JSON, no configuration file, no directory
InvalidJsonProject == [FullDir EXCEPT !.config_file = InvalidConfigFile]
NoConfigProject == FullDir

FlowProjects ==
    { CleanProject, WarnedProject, NoEmailProject, TemplateProject, BadRatingProject,
      ExternalPhotoProject, InvalidJsonProject, NoConfigProject, NoProjectDir }

\* the arguments of main for one project; the flags main does not get to read
\* after --template, or without --config, are left off
MainArgs(project_dir) ==
    { a \in [project_dir : { project_dir }, batch : { FALSE }, setup : BOOLEAN,
             template : BOOLEAN, config : BOOLEAN, validate : BOOLEAN, pdf : BOOLEAN,
             output : { "index.html", "press.html" }] :
        /\ (a.template \/ ~a.config) => ~a.pdf
        /\ a.output # "index.html" => (a.config /\ ~a.validate /\ ~a.template) }

\* python epk_core.py <project_dir> [--setup] [--template] [--config] ...
Main ==
    /\ \E project_dir \in DOMAIN disk :
          \E args \in MainArgs(project_dir) :
              \E renders \in IF args.pdf THEN { {}, Backends } ELSE { Backends } :
                  \E r \in { main(args, disk, renders) } :
                      /\ disk' = r.disk
                      /\ calls' = r.calls
                      /\ returned' = IF r.raised THEN Raised("main", args, r.value)
                                     ELSE Returned("main", args, r.value)
    /\ UNCHANGED << modules, epk, rendered, ncalls, results, batch, active_projects >>

\* BatchProcessor._process_single on the project directory
ProcessSingle ==
    /\ \E film \in DOMAIN disk, renders \in { {}, Backends } :
          \E r \in { _process_single(film, disk, renders) } :
              /\ disk' = r.disk
              /\ calls' = r.calls
              /\ returned' = Returned("_process_single", [project_dir |-> film], r.result)
    /\ UNCHANGED << modules, epk, rendered, ncalls, results, batch, active_projects >>

\* POST /api/projects/{project_id}/generate
GenerateEpk ==
    /\ \E project_id \in ApiIds, generate_pdf_flag \in BOOLEAN :
          \E r \in { generate_epk(project_id, generate_pdf_flag, disk, active_projects) } :
              /\ disk' = r.disk
              /\ calls' = r.calls
              /\ active_projects' = r.active_projects
              /\ returned' =
                     Returned("generate_epk",
                              [project_id |-> project_id, generate_pdf |-> generate_pdf_flag],
                              r.response)
    /\ UNCHANGED << modules, epk, rendered, ncalls, results, batch >>

\* one project directory, of the command line or of the API (registered or not)
InitFlow ==
    /\ PIL_AVAILABLE = FALSE
    /\ PLAYWRIGHT_AVAILABLE = FALSE
    /\ WEASYPRINT_AVAILABLE \in BOOLEAN
    /\ \E name \in { "film", "id1" }, dir \in FlowProjects :
          /\ disk = [p \in { name } |-> dir]
          /\ epk = EPKGenerator(name)
          /\ active_projects \in
                 IF name = "id1"
                 THEN { << >>, [id \in { name } |-> Registered("Film", EmptyDict)] }
                 ELSE { << >> }
    /\ returned = NothingReturned
    /\ rendered = << >>
    /\ ncalls = 0
    /\ calls = << >>
    /\ results = << >>
    /\ batch = NoBatch

NextFlow == Main \/ ProcessSingle \/ GenerateEpk

\* the three single-project flows, in any order, on one project directory
SpecFlow == InitFlow /\ [][NextFlow]_vars

-----------------------------------------------------------------------------
(* Batch runs on a root directory of projects *)

\* the sub-directories of the root directory
BatchNames == { AllNames[i] : i \in 1 .. MaxProjects }

\* small projects: valid, without contact email, raising in generate_html
SmallConfig == [metadata |-> RenderMeta(Drama), contact |-> BaseConfig["contact"]]

BatchProjects ==
    { Project(SmallConfig, PosterDir),
      Project([SmallConfig EXCEPT !["contact"] = [name |-> "Press office"]], PosterDir),
      Project(SmallConfig @@ [reviews |-> << Review("five") >>], PosterDir),
      [PosterDir EXCEPT !.config_file = InvalidConfigFile],
      PosterDir }

\* process_all on the processor that holds results
ProcessAll ==
    /\ ncalls < MaxCalls
    /\ \E renders \in { {}, Backends } :
          \E r \in { process_all(results, batch.summary, disk, renders) } :
              /\ disk' = r.disk
              /\ results' = r.results
              /\ calls' = r.calls
              /\ batch' = [batch EXCEPT !.summary = r.summary]
              /\ returned' = Returned("process_all", << >>, r.value)
    /\ ncalls' = ncalls + 1
    /\ UNCHANGED << modules, epk, rendered, active_projects >>

\* main with --batch: a new BatchProcessor, process_all, batch_results.json
MainBatch ==
    /\ \E renders \in { {}, Backends } :
          \E r \in { process_all(<< >>, batch.summary, disk, renders) } :
              /\ disk' = r.disk
              /\ calls' = r.calls
              /\ batch' = [summary |-> r.summary,
                           results_file |-> [saved |-> TRUE, results |-> r.value]]
              /\ returned' = Returned("main", [batch |-> TRUE], r.value)
    /\ UNCHANGED << modules, epk, rendered, ncalls, results, active_projects >>

\* a root directory of MaxProjects sub-directories and a new BatchProcessor
InitBatch ==
    /\ PIL_AVAILABLE = FALSE
    /\ PLAYWRIGHT_AVAILABLE = FALSE
    /\ WEASYPRINT_AVAILABLE \in BOOLEAN
    /\ disk \in [BatchNames -> BatchProjects]
    /\ epk = EPKGenerator("film")
    /\ returned = NothingReturned
    /\ rendered = << >>
    /\ ncalls = 0
    /\ calls = << >>
    /\ results = << >>
    /\ batch = NoBatch
    /\ active_projects = << >>

NextBatch == ProcessAll \/ MainBatch

\* batch runs, by the processor and by main --batch, in any order
SpecBatch == InitBatch /\ [][NextBatch]_vars

-----------------------------------------------------------------------------
(* Properties of the single-project flows, under SpecFlow *)

\* a single-project flow has just ended: main given --config, _process_single,
\* or the generate endpoint
FlowEnded ==
    \/ returned.call \in { "_process_single", "generate_epk" }
    \/ returned.call = "main" /\ returned.args.config

\* the invocations of a method in the flow
Invocations(method) == { i \in DOMAIN calls : calls[i].method = method }

\* validate_assets returned, with no error; with some error; with a warning
ValidatedClean ==
    \E i \in Invocations("validate_assets") : calls[i].value.errors = << >>
ValidatedWithErrors ==
    \E i \in Invocations("validate_assets") : calls[i].value.errors # << >>
ValidatedWithWarnings ==
    \E i \in Invocations("validate_assets") : calls[i].value.warnings # << >>

\* the flow called a method that writes an HTML file
HtmlInvoked == Invocations("generate_html") # {}
RendererInvoked == Invocations("generate_html") \cup Invocations("generate_pdf") # {}

\* main was run with --validate
ValidateOnly == returned.call = "main" /\ returned.args.validate

\* C1: in each single-project flow generate_html is invoked if and only if
\* validate_assets returned no errors; after a validation error nothing that
\* writes HTML is called; warnings alone do not stop the flow.
C1_GenerateIffNoErrors ==
    FlowEnded =>
        /\ HtmlInvoked <=> ValidatedClean
        /\ ValidatedWithErrors => ~RendererInvoked
        /\ (ValidatedClean /\ ValidatedWithWarnings) => HtmlInvoked

\* C1, amended: the same, except that main run with --validate never invokes
\* generate_html, whatever validate_assets returned.
C1_GenerateIffNoErrorsUnlessValidateOnly ==
    FlowEnded =>
        /\ HtmlInvoked <=> (ValidatedClean /\ ~ValidateOnly)
        /\ ValidatedWithErrors => ~RendererInvoked
        /\ (ValidatedClean /\ ValidatedWithWarnings /\ ~ValidateOnly) => HtmlInvoked

\* main --config on a project that validates with warnings only has written
\* the HTML file
C1_Witness ==
    /\ returned.call = "main"
    /\ returned.args.config
    /\ ~returned.args.validate
    /\ ValidatedClean
    /\ ValidatedWithWarnings
    /\ HtmlInvoked
    /\ returned.value.html \in DOMAIN disk[returned.args.project_dir].html

-----------------------------------------------------------------------------
(* Properties of the batch run, under SpecBatch *)

\* a batch run on a new BatchProcessor has just ended
BatchEnded ==
    \/ returned.call = "main" /\ returned.args.batch
    \/ returned.call = "process_all" /\ ncalls = 1

\* the directories of the root that hold a configuration file
Discovered ==
    { name \in DOMAIN disk : disk[name].exists /\ disk[name].config_file.kind # "missing" }

\* the projects for which a method raised or validate_assets returned an error
FailedProjects ==
    { name \in Discovered :
        \E i \in DOMAIN calls :
            /\ calls[i].project = name
            /\ \/ calls[i].raised
               \/ calls[i].method = "validate_assets" /\ calls[i].value.errors # << >> }

\* the projects whose configuration has no contact email
WithoutEmail ==
    { name \in Discovered :
        /\ disk[name].config_file.kind = "json"
        /\ Get(Get(disk[name].config_file.data, "contact", EmptyDict), "email", "") = "" }

\* the entries of the result list for a project
EntriesOf(list, name) == { i \in DOMAIN list : list[i].film = name }

\* C10: a batch run returns one result for every discovered project whatever
\* the others did; the summary has total = successful + failed, failed being
\* the number of projects that had a validation error or raised; each failed
\* entry carries its error messages, 'Contact email required' for a project
\* without contact email; three projects of which one lacks the email and
\* nothing else fails give successful = 2 and failed = 1.
C10_BatchProcessesEveryProject ==
    (BatchEnded /\ Discovered # {}) =>
        LET list == returned.value
            summary == batch.summary
        IN  /\ Len(list) = Cardinality(Discovered)
            /\ \A name \in Discovered : Cardinality(EntriesOf(list, name)) = 1
            /\ summary.printed
            /\ summary.total = Cardinality(Discovered)
            /\ summary.total = summary.successful + summary.failed
            /\ summary.failed = Cardinality(FailedProjects)
            /\ \A i \in DOMAIN list :
                  /\ list[i].success <=> list[i].film \notin FailedProjects
                  /\ ~list[i].success => list[i].errors # << >>
                  /\ list[i].film \in WithoutEmail
                        => Count(list[i].errors, "Contact email required") = 1
            /\ \A i \in DOMAIN summary.failed_films :
                  /\ summary.failed_films[i].errors # << >>
                  /\ summary.failed_films[i].film \in FailedProjects
            /\ (Cardinality(Discovered) = 3 /\ Cardinality(WithoutEmail) = 1
                /\ FailedProjects = WithoutEmail)
                  => (summary.successful = 2 /\ summary.failed = 1)

\* main --batch on three projects, the second of which lacks the contact email
\* and the third of which comes after it and succeeds
C10_Witness ==
    /\ returned.call = "main"
    /\ returned.args.batch
    /\ Cardinality(Discovered) = 3
    /\ Cardinality(WithoutEmail) = 1
    /\ Len(returned.value) = 3
    /\ returned.value[2].film \in WithoutEmail
    /\ ~returned.value[2].success
    /\ returned.value[3].success
    /\ batch.summary.successful = 2
    /\ batch.summary.failed = 1
    /\ batch.results_file.saved

\* neither PDF backend was imported
NoPdfBackend == ~PLAYWRIGHT_AVAILABLE /\ ~WEASYPRINT_AVAILABLE

\* C11: without a PDF backend every generate_pdf call of a batch run returns
\* no path and raises nothing, writes neither a PDF nor the print document,
\* and each project whose HTML was rendered is reported as successful with
\* pdf_path left empty.
C11_NoBackendSkipsPdf ==
    (NoPdfBackend /\ returned.call \in { "main", "process_all" }) =>
        /\ \A i \in Invocations("generate_pdf") :
              ~calls[i].raised /\ calls[i].value = "None"
        /\ \A i \in Invocations("generate_html") :
              ~calls[i].raised =>
                  \E j \in Invocations("generate_pdf") :
                      j > i /\ calls[j].project = calls[i].project
        /\ \A name \in DOMAIN disk :
              /\ disk[name].pdf = << >>
              /\ "temp_for_pdf.html" \notin DOMAIN disk[name].html
        /\ \A i \in DOMAIN returned.value :
              returned.value[i].html_path # "None" =>
                  /\ returned.value[i].success
                  /\ returned.value[i].pdf_path = "None"
                  /\ returned.value[i].html_path \in DOMAIN disk[returned.value[i].film].html

\* a batch run without PDF backend in which a project was rendered and is
\* reported successful, without PDF
C11_Witness ==
    /\ NoPdfBackend
    /\ returned.call = "main"
    /\ Invocations("generate_pdf") # {}
    /\ \E i \in DOMAIN returned.value :
          /\ returned.value[i].success
          /\ returned.value[i].html_path = "index.html"
          /\ returned.value[i].pdf_path = "None"

-----------------------------------------------------------------------------
(* The API: create, validate, download, status and delete *)

\* the form of a create request: the parsed config field, the poster (none or
\* one file), the stills and the team photos, each file under the name the
\* client gave it, a plain file name without directory part
Upload(config, poster, stills, team_photos) ==
    [config |-> config, poster |-> poster, stills |-> stills, team_photos |-> team_photos]

\* the characters of the member names the requests use
Chars(name) ==
    CASE name = "" -> << >>
      [] name = "Al" -> << "A", "l" >>
      [] name = "Al B" -> << "A", "l", " ", "B" >>
      [] name = "Bo" -> << "B", "o" >>

\* str.replace(' ', '_')
Underscored(s) == [i \in DOMAIN s |-> IF s[i] = " " THEN "_" ELSE s[i]]

\* str.startswith(prefix)
StartsWith(s, prefix) ==
    /\ Len(prefix) <= Len(s)
    /\ SubSeq(s, 1, Len(prefix)) = prefix

\* photo.filename.lower().startswith(member.get('name', '').lower().replace(' ', '_'))
PhotoMatches(photo, member) ==
    StartsWith(Lower(photo.name), Underscored(Lower(Chars(Get(member, "name", "")))))

\* member['photo'] = f"assets/images/crew/{photo.filename}"
WithPhoto(member, photo) ==
    [k \in DOMAIN member \cup { "photo" } |->
        IF k = "photo" THEN Path("", "", 0, CrewPath, photo.name) ELSE member[k]]

\* the loop over the members for one photo
AssociatePhoto(team, photo) ==
    [i \in DOMAIN team |->
        IF PhotoMatches(photo, team[i]) THEN WithPhoto(team[i], photo) ELSE team[i]]

RECURSIVE AssociatePhotos(_, _)
\* the loop over the team photos, in upload order
AssociatePhotos(team, photos) ==
    IF photos = << >> THEN team
    ELSE AssociatePhotos(AssociatePhoto(team, Head(photos)), Tail(photos))

\* open(path, "wb") in a directory: the file replaces one of the same name
SaveFile(directory, file) ==
    IF \E i \in DOMAIN directory.files : directory.files[i].name = file.name
    THEN [directory EXCEPT !.files =
             [i \in DOMAIN @ |-> IF @[i].name = file.name THEN file ELSE @[i]]]
    ELSE [directory EXCEPT !.files = Append(@, file)]

RECURSIVE SaveFiles(_, _)
\* the uploads of one form field, saved one after the other
SaveFiles(directory, files) ==
    IF files = << >> THEN directory
    ELSE SaveFiles(SaveFile(directory, Head(files)), Tail(files))

\* the disk with the directory of one project replaced or added
WithProject(dsk, project_id, dir) ==
    [id \in DOMAIN dsk \cup { project_id } |-> IF id = project_id THEN dir ELSE dsk[id]]

\* the names of the files of one form field
Filenames(files) == [i \in DOMAIN files |-> files[i].name]

\* assets_saved: a key for each form field that came with files
AssetsSaved(upload) ==
    [k \in { f \in { "poster", "stills", "team_photos" } : upload[f] # << >> } |->
        IF k = "poster" THEN upload.poster[1].name ELSE Filenames(upload[k])]

\* create_project once json.loads returned config_data; dir is the project
\* directory after setup_project_structure
CreateLoaded(upload, project_id, dsk, registry, dir) ==
    LET config_data == upload.config.data
        saved_config ==
            IF "team" \in DOMAIN config_data
            THEN [config_data EXCEPT !.team = AssociatePhotos(@, upload.team_photos)]
            ELSE config_data
        assets_saved == AssetsSaved(upload)
        filled ==
            [dir EXCEPT !.config_file = ConfigFile(saved_config),
                        !.posters = SaveFiles(@, upload.poster),
                        !.stills = SaveFiles(@, upload.stills),
                        !.crew = SaveFiles(@, upload.team_photos)]
        validation == validate_assets(saved_config, filled, PIL_AVAILABLE)
        stored ==
            [id \in DOMAIN registry \cup { project_id } |->
                IF id = project_id
                THEN Registered(Get(Get(config_data, "metadata", EmptyDict),
                                    "title", "Unknown"),
                                assets_saved)
                ELSE registry[id]]
        trace == << Event(project_id, "setup_project_structure", FALSE, "None"),
                    Event(project_id, "load_config", FALSE, "config") >>
    IN  IF ValidationRaises(saved_config)
        THEN Handled(WithProject(dsk, project_id, filled), stored,
                     trace \o << Event(project_id, "validate_assets", TRUE,
                                       "AttributeError") >>,
                     Response(500, "AttributeError", << >>))
        ELSE Handled(WithProject(dsk, project_id, filled), stored,
                     trace \o << Event(project_id, "validate_assets", FALSE, validation) >>,
                     ProjectResponse(project_id, "created", "Project created successfully",
                                     validation, "None"))

\* POST /api/projects/create under the identifier uuid4 produced
create_project(upload, project_id, dsk, registry) ==
    LET made == [DirOf(dsk, project_id) EXCEPT !.exists = TRUE]
    IN  IF upload.config.kind # "json"
        THEN Handled(WithProject(dsk, project_id, made), registry, << >>,
                     Response(400, "Invalid JSON configuration", << >>))
        ELSE CreateLoaded(upload, project_id, dsk, registry,
                          setup_project_structure(made))

\* the answer of the validate endpoint when validate_assets returned
Validation(validation) ==
    [status_code |-> 200, is_valid |-> validation.is_valid,
     errors |-> validation.errors, warnings |-> validation.warnings]

\* GET /api/projects/{project_id}/validate: its only handler, except Exception,
\* answers 500 to whatever the body raised, the 404 of the body included
validate_project(project_id, dsk) ==
    LET dir == DirOf(dsk, project_id)
        file == dir.config_file
    IN  IF ~dir.exists
        THEN [calls |-> << >>, response |-> Response(500, "404: Project not found", << >>)]
        ELSE IF file.kind # "json"
        THEN [calls |-> << Event(project_id, "load_config", TRUE, file.kind) >>,
              response |-> Response(500, file.kind, << >>)]
        ELSE IF ValidationRaises(file.data)
        THEN [calls |-> << Event(project_id, "load_config", FALSE, "config"),
                           Event(project_id, "validate_assets", TRUE, "AttributeError") >>,
              response |-> Response(500, "AttributeError", << >>)]
        ELSE [calls |-> << Event(project_id, "load_config", FALSE, "config"),
                           Event(project_id, "validate_assets", FALSE,
                                 validate_assets(file.data, dir, PIL_AVAILABLE)) >>,
              response |-> Validation(validate_assets(file.data, dir, PIL_AVAILABLE))]

\* an archive name: the directories and the file name
Entry(dirs, name) == [dirs |-> dirs, name |-> name]

\* the files of a project directory that are not assets
NamedEntries(dir) ==
    { Entry(<< >>, "film_config.json") : x \in { dir.config_file.kind } \ { "missing" } }
    \cup { Entry(<< >>, "epk_package.zip") : x \in { dir.package.exists } \ { FALSE } }
    \cup { Entry(<< "output", "html" >>, name) : name \in DOMAIN dir.html }
    \cup { Entry(<< "output", "pdf" >>, name) : name \in DOMAIN dir.pdf }

\* the files of the asset directories of a project directory
AssetEntries(dir) ==
    { Entry(PostersPath, f.name) : f \in Range(dir.posters.files) }
    \cup { Entry(StillsPath, f.name) : f \in Range(dir.stills.files) }
    \cup { Entry(CrewPath, f.name) : f \in Range(dir.crew.files) }
    \cup { Entry(DownloadsPath, f.name) : f \in Range(dir.downloads.files) }

\* os.walk(top): the entries under top, named relative to the project directory
Under(entries, top) ==
    { e \in entries : Len(e.dirs) >= Len(top) /\ SubSeq(e.dirs, 1, Len(top)) = top }

\* a variant that walks the whole project directory
PackageRoot_ProjectDir == << >>

\* project_dir / "assets", the directory download_package walks
PackageRoot == << "assets" >>

\* a file answered with FileResponse
FileResponse(filename) == [status_code |-> 200, filename |-> filename]

\* download_package: the zip is opened for writing, then filled with the two
\* output files that exist and with what os.walk finds
download_package(project_id, dsk) ==
    LET dir == dsk[project_id]
        opened == [dir EXCEPT !.package = [NoPackage EXCEPT !.exists = TRUE]]
        outputs ==
            { Entry(<< >>, "index.html") : x \in { "index.html" } \cap DOMAIN dir.html }
            \cup { Entry(<< >>, "epk.pdf") : x \in { "epk.pdf" } \cap DOMAIN dir.pdf }
        zip == [exists |-> TRUE,
                named |-> outputs \cup Under(NamedEntries(opened), PackageRoot),
                assets |-> Under(AssetEntries(opened), PackageRoot)]
    IN  [disk |-> [dsk EXCEPT ![project_id].package = zip],
         response |-> FileResponse("epk_package.zip")]

\* the file types download_file is asked for
FileTypes == { "html", "pdf", "package", "zip" }

\* GET /api/projects/{project_id}/download/{file_type}
download_file(project_id, file_type, dsk) ==
    LET dir == DirOf(dsk, project_id)
        Answer(files, name) ==
            IF name \in DOMAIN files
            THEN [disk |-> dsk, response |-> FileResponse(name)]
            ELSE [disk |-> dsk,
                  response |-> Response(404, "file not found", << >>)]
    IN  IF ~dir.exists
        THEN [disk |-> dsk, response |-> Response(404, "Project not found", << >>)]
        ELSE CASE file_type = "html" -> Answer(dir.html, "index.html")
               [] file_type = "pdf" -> Answer(dir.pdf, "epk.pdf")
               [] file_type = "package" -> download_package(project_id, dsk)
               [] OTHER -> [disk |-> dsk,
                            response |-> Response(400, "Invalid file type", << >>)]

\* GET /api/projects/{project_id}
get_project_status(project_id, registry) ==
    IF project_id \notin DOMAIN registry
    THEN Response(404, "Project not found", << >>)
    ELSE [status_code |-> 200, project_id |-> project_id, entry |-> registry[project_id]]

\* a variant that empties the registry
delete_project_ClearsRegistry(project_id, dsk, registry) ==
    [disk |-> Restrict(dsk, DOMAIN dsk \ { project_id }),
     active_projects |-> << >>,
     response |-> [status_code |-> 200, status |-> "deleted", project_id |-> project_id]]

\* a variant that removes the directory and keeps the registry entry
delete_project_KeepsEntry(project_id, dsk, registry) ==
    [disk |-> Restrict(dsk, DOMAIN dsk \ { project_id }),
     active_projects |-> registry,
     response |-> [status_code |-> 200, status |-> "deleted", project_id |-> project_id]]

\* DELETE /api/projects/{project_id}: rmtree and del, each if there is something
delete_project(project_id, dsk, registry) ==
    [disk |-> Restrict(dsk, DOMAIN dsk \ { project_id }),
     active_projects |-> Restrict(registry, DOMAIN registry \ { project_id }),
     response |-> [status_code |-> 200, status |-> "deleted", project_id |-> project_id]]

-----------------------------------------------------------------------------
(* The API server: requests on several projects *)

\* uuid.uuid4(): the identifiers, in the order they are handed out
IdOrder == << "id1", "id2", "id3" >>

\* the team members of the requests
Al == [name |-> "Al", role |-> "Director", bio |-> "A bio", photo |-> NoPath]
AlB == [name |-> "Al B", role |-> "Producer", bio |-> "A bio", photo |-> NoPath]
Bo == [name |-> "Bo", role |-> "Editor", bio |-> "A bio", photo |-> NoPath]
Unnamed == [role |-> "Gaffer", bio |-> "A bio", photo |-> NoPath]

\* an uploaded photo
Photo(name) == File(name, TRUE, 400, 400)
AlJpg == Photo(<< "a", "l" >> \o DotJpg)
AlBJpg == Photo(<< "a", "l", "_", "b" >> \o DotJpg)
AlBPngUpper == Photo(<< "A", "L", "_", "B" >> \o DotPng)
BoJpg == Photo(<< "b", "o" >> \o DotJpg)
OtherJpg == Photo(<< "x" >> \o DotJpg)

\* a configuration that validates once a poster is uploaded
ApiConfig(team) ==
    [metadata |-> RenderMeta(Drama), team |-> team, contact |-> BaseConfig["contact"]]

ApiPoster == File(PosterName(DotJpg), TRUE, 2000, 3000)

\* a configuration whose contact is the address itself, not an object
TextContactConfig ==
    [metadata |-> RenderMeta(Drama), contact |-> JsonString("press@film.example")]

\* the create requests of the server runs: a complete project, one without
\* poster, a config field that is no JSON, and a contact that is a string
ApiUploads ==
    { Upload(ConfigFile(ApiConfig(<< Al >>)), << ApiPoster >>,
             << StillFile(1, "ok"), StillFile(2, "ok") >>, << AlJpg >>),
      Upload(ConfigFile(ApiConfig(<< Al >>)), << >>, << >>, << >>),
      Upload(InvalidConfigFile, << ApiPoster >>, << >>, << >>),
      Upload(ConfigFile(TextContactConfig), << ApiPoster >>, << >>, << >>) }

\* the teams and the team photos of the create requests that upload photos
Teams ==
    { << >>, << Al >>, << Al, AlB >>, << AlB, Al >>, << Al, Bo >>, << BlankMember, Bo >>,
      << Unnamed, Al >> }

TeamPhotos ==
    { << >>, << AlJpg >>, << AlBJpg >>, << AlBPngUpper >>, << OtherJpg >>,
      << AlJpg, AlBJpg >>, << BoJpg, OtherJpg >> }

TeamUploads ==
    { Upload(ConfigFile(ApiConfig(team)), << ApiPoster >>, << >>, photos) :
        team \in Teams, photos \in TeamPhotos }
    \cup { Upload(ConfigFile(SmallConfig), << >>, << >>, << AlJpg >>) }

\* a create request, with one of the given forms
CreateWith(uploads) ==
    /\ ncalls < MaxCalls
    /\ \E upload \in uploads :
          \E r \in { create_project(upload, IdOrder[ncalls + 1], disk, active_projects) } :
              /\ disk' = r.disk
              /\ active_projects' = r.active_projects
              /\ calls' = r.calls
              /\ returned' = Returned("create_project", upload, r.response)
    /\ ncalls' = ncalls + 1
    /\ UNCHANGED << modules, epk, rendered, results, batch >>

\* POST /api/projects/create
CreateProject == CreateWith(ApiUploads)

\* POST /api/projects/create with team photos
CreateTeam == CreateWith(TeamUploads)

\* GET /api/projects/{project_id}/validate
ValidateProject ==
    /\ \E project_id \in ApiIds :
          \E r \in { validate_project(project_id, disk) } :
              /\ calls' = r.calls
              /\ returned' = Returned("validate_project", [project_id |-> project_id],
                                      r.response)
    /\ UNCHANGED << modules, disk, epk, rendered, ncalls, results, batch, active_projects >>

\* GET /api/projects/{project_id}/download/{file_type}
DownloadFile ==
    /\ \E project_id \in ApiIds, file_type \in FileTypes :
          \E r \in { download_file(project_id, file_type, disk) } :
              /\ disk' = r.disk
              /\ returned' =
                     Returned("download_file",
                              [project_id |-> project_id, file_type |-> file_type],
                              r.response)
    /\ calls' = << >>
    /\ UNCHANGED << modules, epk, rendered, ncalls, results, batch, active_projects >>

\* GET /api/projects/{project_id}
GetProjectStatus ==
    /\ \E project_id \in ApiIds :
          returned' = Returned("get_project_status", [project_id |-> project_id],
                               get_project_status(project_id, active_projects))
    /\ calls' = << >>
    /\ UNCHANGED << modules, disk, epk, rendered, ncalls, results, batch, active_projects >>

\* DELETE /api/projects/{project_id}
DeleteProject ==
    /\ \E project_id \in ApiIds :
          \E r \in { delete_project(project_id, disk, active_projects) } :
              /\ disk' = r.disk
              /\ active_projects' = r.active_projects
              /\ returned' = Returned("delete_project", [project_id |-> project_id],
                                      r.response)
    /\ calls' = << >>
    /\ UNCHANGED << modules, epk, rendered, ncalls, results, batch >>

\* the server after start-up: PROJECTS_DIR is empty and so is the registry
InitApi ==
    /\ PIL_AVAILABLE = FALSE
    /\ PLAYWRIGHT_AVAILABLE = FALSE
    /\ WEASYPRINT_AVAILABLE \in BOOLEAN
    /\ disk = << >>
    /\ active_projects = << >>
    /\ epk = EPKGenerator("id1")
    /\ returned = NothingReturned
    /\ rendered = << >>
    /\ ncalls = 0
    /\ calls = << >>
    /\ results = << >>
    /\ batch = NoBatch

NextApi ==
    \/ CreateProject
    \/ GenerateEpk
    \/ ValidateProject
    \/ DownloadFile
    \/ GetProjectStatus
    \/ DeleteProject

SpecApi == InitApi /\ [][NextApi]_vars

NextUpload == CreateTeam

SpecUpload == InitApi /\ [][NextUpload]_vars

-----------------------------------------------------------------------------
(* Properties of the API server *)

\* the status of a registered project
StatusOf(registry, id) == registry[id].status

\* the last request was answered with this status code
Answered(call, status_code) ==
    returned.call = call /\ returned.value.status_code = status_code

\* what one step may do to the registry entry of id
RegistryStep(id) ==
    LET was == id \in DOMAIN active_projects
        is == id \in DOMAIN active_projects'
    IN  /\ (~was /\ is) =>
              /\ returned'.call = "create_project"
              /\ StatusOf(active_projects', id) = "created"
        /\ (was /\ is /\ StatusOf(active_projects', id) # StatusOf(active_projects, id)) =>
              /\ StatusOf(active_projects, id) = "created"
              /\ StatusOf(active_projects', id) = "generated"
              /\ returned'.call = "generate_epk"
              /\ returned'.args.project_id = id
              /\ returned'.value.status_code = 200
        /\ (was /\ ~is) =>
              /\ returned'.call = "delete_project"
              /\ returned'.args.project_id = id

\* C12: every registry entry has status "created" or "generated"; an entry
\* appears only through a create request, with status "created";
\* its status changes only from "created" to "generated" and only through a
\* successful generate request on it; it disappears only through delete_project.
C12_RegistryStatus ==
    /\ [](\A id \in DOMAIN active_projects :
              StatusOf(active_projects, id) \in { "created", "generated" })
    /\ [][\A id \in ApiIds : RegistryStep(id)]_vars

\* a generate request has just succeeded on one registered project while
\* another one is still as created
C12_Witness ==
    /\ returned.call = "generate_epk"
    /\ returned.value.status_code = 200
    /\ \E a, b \in DOMAIN active_projects :
          /\ a = returned.args.project_id
          /\ StatusOf(active_projects, a) = "generated"
          /\ StatusOf(active_projects, b) = "created"

\* the project the last request named does not exist, or exists without
\* configuration file
TargetMissing == ~DirOf(disk, returned.args.project_id).exists
TargetWithoutConfig ==
    /\ DirOf(disk, returned.args.project_id).exists
    /\ DirOf(disk, returned.args.project_id).config_file.kind = "missing"

\* C13: a generate, validate or download request for a project whose directory
\* does not exist is answered 404; a generate or validate request that finds
\* the directory but no configuration file is answered 400 or 404; none of
\* the three endpoints answers 500 in these cases.
C13_MissingProjectIsNotFound ==
    returned.call \in { "generate_epk", "validate_project", "download_file" } =>
        /\ TargetMissing => returned.value.status_code = 404
        /\ (TargetWithoutConfig /\ returned.call # "download_file") =>
              returned.value.status_code \in { 400, 404 }
        /\ (TargetMissing \/ TargetWithoutConfig) => returned.value.status_code # 500

\* the project the last create request made
CreatedId == IdOrder[ncalls]

\* a create request with a team was answered 200
CreatedWithTeam ==
    /\ Answered("create_project", 200)
    /\ "team" \in DOMAIN returned.args.config.data

\* the members a photo is to be associated with when the first match wins
FirstMatch(team, photo) ==
    { i \in DOMAIN team :
        /\ PhotoMatches(photo, team[i])
        /\ \A j \in 1 .. (i - 1) : ~PhotoMatches(photo, team[j]) }

\* the photo field of member i when each photo goes to its first match only
FirstMatchPhoto(team, photos, i) ==
    LET mine == { k \in DOMAIN photos : i \in FirstMatch(team, photos[k]) }
    IN  IF mine = {} THEN Get(team[i], "photo", NoPath)
        ELSE Path("", "", 0, CrewPath,
                  photos[CHOOSE k \in mine : \A l \in mine : l <= k].name)

\* C14: every uploaded team photo is saved, and in the configuration the
\* create request writes, each photo is associated with the first member (in
\* team order) whose name it starts with and with no other member; a photo
\* that matches no member changes no photo field.
C14_FirstMatchingMemberGetsPhoto ==
    CreatedWithTeam =>
        LET team == returned.args.config.data.team
            photos == returned.args.team_photos
            dir == disk[CreatedId]
        IN  /\ \A k \in DOMAIN photos :
                  \E n \in DOMAIN dir.crew.files : dir.crew.files[n] = photos[k]
            /\ DOMAIN dir.config_file.data.team = DOMAIN team
            /\ \A i \in DOMAIN team :
                  Get(dir.config_file.data.team[i], "photo", NoPath)
                      = FirstMatchPhoto(team, photos, i)

\* the last request asked for this file of a project
Downloaded(file_type) ==
    returned.call = "download_file" /\ returned.args.file_type = file_type

\* the project of the last request is registered as generated
TargetGenerated ==
    /\ returned.args.project_id \in DOMAIN active_projects
    /\ StatusOf(active_projects, returned.args.project_id) = "generated"

\* C15: a successful generate request leaves output/html/index.html and
\* announces the html download only; no request of the server ever leaves a
\* PDF; hence the html download of a generated project succeeds and every pdf
\* download is answered 404.
C15_GenerateWritesHtmlOnly ==
    /\ \A id \in DOMAIN disk : DOMAIN disk[id].pdf = {}
    /\ Answered("generate_epk", 200) =>
          /\ "index.html" \in DOMAIN disk[returned.args.project_id].html
          /\ returned.value.download_urls = DownloadUrls(returned.args.project_id)
          /\ DOMAIN returned.value.download_urls = { "html" }
    /\ (Downloaded("html") /\ TargetGenerated) => returned.value.status_code = 200
    /\ Downloaded("pdf") => returned.value.status_code = 404

\* the pdf download of a project that was generated has just been answered 404
C15_Witness ==
    /\ Downloaded("pdf")
    /\ TargetGenerated
    /\ "index.html" \in DOMAIN disk[returned.args.project_id].html
    /\ returned.value.status_code = 404

\* the posters directory holds a file with a .jpg, .jpeg or .png extension
HasPosterImage(posters) ==
    /\ posters.exists
    /\ \E i \in DOMAIN posters.files :
          \E ext \in { DotJpg, DotJpeg, DotPng } : HasSuffix(posters.files[i].name, ext)

\* C16: the validator reports "Poster image required (JPG or PNG)", once,
\* exactly when the posters directory is missing or holds no file with a
\* .jpg, .jpeg or .png extension.
C16_PosterRequirement ==
    Validated =>
        Count(returned.value.errors, "Poster image required (JPG or PNG)")
            = IF HasPosterImage(ValidatedDir.posters) THEN 0 ELSE 1

\* the output files the package is to hold: index.html and epk.pdf, if there
OutputsPresent(dir) ==
    { Entry(<< >>, name) :
        name \in ({ "index.html" } \cap DOMAIN dir.html) \cup ({ "epk.pdf" } \cap DOMAIN dir.pdf) }

\* C17: after a package download the zip holds index.html if it exists,
\* epk.pdf if it exists, every file of the asset directories under its path
\* from the project root, and nothing else: neither the configuration file
\* nor the zip itself.
C17_PackageContents ==
    (Downloaded("package") /\ returned.value.status_code = 200) =>
        LET dir == disk[returned.args.project_id]
        IN  /\ dir.package.exists
            /\ dir.package.named = OutputsPresent(dir)
            /\ dir.package.assets = AssetEntries(dir)
            /\ \A e \in dir.package.assets : Head(e.dirs) = "assets"
            /\ \A e \in dir.package.named :
                  e.name \notin { "film_config.json", "epk_package.zip" }

\* the package of a generated project with uploaded assets was downloaded
C17_Witness ==
    /\ Downloaded("package")
    /\ returned.value.status_code = 200
    /\ TargetGenerated
    /\ Entry(<< >>, "index.html") \in disk[returned.args.project_id].package.named
    /\ Cardinality(disk[returned.args.project_id].package.assets) > 1
    /\ disk[returned.args.project_id].config_file.kind = "json"

\* the project a request worked on: the one it made or the one it named
TargetOf(request, made) ==
    IF request.call = "create_project" THEN IdOrder[made] ELSE request.args.project_id

\* f and g agree on id: both without it, or both with the same value
SameAt(f, g, id) ==
    /\ id \in DOMAIN f <=> id \in DOMAIN g
    /\ id \in DOMAIN f => f[id] = g[id]

\* C18: a create request works under an identifier that was never handed out
\* and that names no directory and no registry entry yet, and makes that
\* directory; every request leaves the directory and the registry entry of
\* every identifier other than the one it works on as they were.
C18_RequestsAreIsolated ==
    [][LET target == TargetOf(returned', ncalls')
       IN  /\ returned'.call = "create_project" =>
                 /\ target \notin { IdOrder[i] : i \in 1 .. ncalls }
                 /\ target \notin DOMAIN disk \cup DOMAIN active_projects
                 /\ target \in DOMAIN disk'
           /\ \A other \in ApiIds \ { target } :
                 /\ SameAt(disk', disk, other)
                 /\ SameAt(active_projects', active_projects, other)]_vars

\* one of two projects was deleted; the other one, generated, still has its
\* files and its registry entry
C18_Witness ==
    /\ returned.call = "delete_project"
    /\ ncalls = 2
    /\ returned.args.project_id \in { "id1", "id2" } \ DOMAIN disk
    /\ \E other \in DOMAIN disk \cap DOMAIN active_projects :
          /\ StatusOf(active_projects, other) = "generated"
          /\ "index.html" \in DOMAIN disk[other].html
          /\ disk[other].posters.files # << >>

-----------------------------------------------------------------------------
(* Properties of the command line and of generate_pdf *)

\* the files under output/ of a project directory
OutputFiles(dsk, project) ==
    [html |-> DirOf(dsk, project).html, pdf |-> DirOf(dsk, project).pdf]

\* C19: a run of main with --validate calls neither generate_html nor
\* generate_pdf, whether the validation passes or fails, and leaves every
\* file under output/html and output/pdf as it was.
C19_ValidateOnlyWritesNothing ==
    [][(returned'.call = "main" /\ returned'.args.validate) =>
          /\ \A i \in DOMAIN calls' :
                calls'[i].method \notin { "generate_html", "generate_pdf" }
          /\ \A project \in DOMAIN disk \cup DOMAIN disk' :
                OutputFiles(disk', project) = OutputFiles(disk, project)]_vars

\* main --config --validate has returned after a validation without errors,
\* on a project whose HTML an earlier run had written
C19_Witness ==
    /\ ValidateOnly
    /\ returned.args.config
    /\ ~returned.raised
    /\ returned.value.outcome = "validated"
    /\ ValidatedClean
    /\ ~RendererInvoked
    /\ DOMAIN disk[returned.args.project_dir].html # {}

\* the backend a generate_pdf call is to use: the Chromium-based one when
\* requested and available, otherwise the CSS-print one when available
ChosenBackend(use_playwright) ==
    IF use_playwright /\ PLAYWRIGHT_AVAILABLE THEN { "playwright" }
    ELSE IF WEASYPRINT_AVAILABLE THEN { "weasyprint" }
    ELSE {}

\* C20: a generate_pdf call invokes the rendering method of the chosen
\* backend once and no other rendering method; what that one attempt returns
\* is what the call returns, so a failed attempt yields no path; a PDF that
\* was written was written by the chosen backend.
C20_SingleRenderingAttempt ==
    returned.call = "generate_pdf" =>
        LET chosen == ChosenBackend(returned.args.use_playwright)
        IN  /\ Len(calls) = Cardinality(chosen)
            /\ \A i \in DOMAIN calls :
                  /\ calls[i].method \in { BackendMethod(b) : b \in chosen }
                  /\ calls[i].value = returned.value
            /\ chosen = {} => returned.value = "None"
            /\ returned.value # "None" =>
                  disk[epk.project_dir].pdf[returned.value].backend \in chosen

\* the Chromium-based backend was chosen and failed while the CSS-print
\* backend is available: the call returned no path and left no PDF
C20_Witness ==
    /\ returned.call = "generate_pdf"
    /\ returned.args.use_playwright
    /\ PLAYWRIGHT_AVAILABLE
    /\ WEASYPRINT_AVAILABLE
    /\ returned.value = "None"
    /\ Len(calls) = 1
    /\ calls[1].method = "_generate_pdf_playwright"
    /\ DOMAIN disk[epk.project_dir].pdf = {}

-----------------------------------------------------------------------------
(* Further properties of the validator *)

\* the errors, and the kinds of warnings, in the order of the rules
ErrorOrder ==
    << "Missing required field: Film title", "Missing required field: Logline",
       "Missing required field: Synopsis", "Missing required field: Genre",
       "Missing required field: Runtime", "Poster image required (JPG or PNG)",
       "Contact email required" >>
WarningOrder ==
    << { "Poster resolution low", "Could not validate poster" },
       { "Only stills found" },
       { "Still resolution low", "No production stills folder found" },
       { "Synopsis is short" } >>

\* the places of the entries of a list in an order; 0 for an entry not in it
ErrorPlaces(errors) ==
    [i \in DOMAIN errors |->
        IF \E k \in DOMAIN ErrorOrder : ErrorOrder[k] = errors[i]
        THEN CHOOSE k \in DOMAIN ErrorOrder : ErrorOrder[k] = errors[i]
        ELSE 0]
WarningPlaces(warnings) ==
    [i \in DOMAIN warnings |->
        IF \E k \in DOMAIN WarningOrder : warnings[i].text \in WarningOrder[k]
        THEN CHOOSE k \in DOMAIN WarningOrder : warnings[i].text \in WarningOrder[k]
        ELSE 0]

\* places of a subsequence: all in the order, strictly increasing
Ascending(places) ==
    /\ \A i \in DOMAIN places : places[i] > 0
    /\ \A i, j \in DOMAIN places : i < j => places[i] < places[j]

\* the texts of the warnings of the last result
WarningTexts == { returned.value.warnings[i].text : i \in DOMAIN returned.value.warnings }

\* the validator finds no poster; the stills it finds
NoPosterFound ==
    ~ValidatedDir.posters.exists \/ GlobImages(ValidatedDir.posters) = << >>
StillsFound == GlobImages(ValidatedDir.stills)

Sampled == SubSeq(StillsFound, 1, IF Len(StillsFound) < 3 THEN Len(StillsFound) ELSE 3)
NarrowSampled == { i \in DOMAIN Sampled : Sampled[i].readable /\ Sampled[i].width < 1280 }

\* the warnings of the last result with a given text
WarningsWith(text) ==
    { i \in DOMAIN returned.value.warnings : returned.value.warnings[i].text = text }

\* C22: a call emits at most one still-resolution warning; with the image
\* library, it emits one exactly when one of the first three stills found is
\* less than 1280 wide, and the warning names the first such still; a stills
\* directory with fewer than 8 images yields exactly one count warning; and
\* every error is one of the errors of the rules that do not read the stills.
C22_StillsSampling ==
    Validated =>
        /\ Cardinality(WarningsWith("Still resolution low")) <= 1
        /\ WarningsWith("Still resolution low") # {}
              <=> (PIL_AVAILABLE /\ ValidatedDir.stills.exists /\ NarrowSampled # {})
        /\ \A i \in WarningsWith("Still resolution low") :
              returned.value.warnings[i].name
                  = Sampled[CHOOSE k \in NarrowSampled : \A l \in NarrowSampled : k <= l].name
        /\ (ValidatedDir.stills.exists /\ Len(StillsFound) < 8) =>
              /\ Cardinality(WarningsWith("Only stills found")) = 1
              /\ \A i \in WarningsWith("Only stills found") :
                    returned.value.warnings[i].a = Len(StillsFound)
        /\ \A i \in DOMAIN returned.value.errors :
              \E k \in DOMAIN ErrorOrder : ErrorOrder[k] = returned.value.errors[i]

\* fewer than 8 stills, the first one wide enough and a later sampled one too
\* narrow: one count warning and one resolution warning
C22_Witness ==
    /\ Validated
    /\ PIL_AVAILABLE
    /\ ValidatedDir.stills.exists
    /\ Len(StillsFound) < 8
    /\ Cardinality(NarrowSampled) >= 1
    /\ 1 \notin NarrowSampled
    /\ Cardinality(WarningsWith("Only stills found")) = 1
    /\ Cardinality(WarningsWith("Still resolution low")) = 1

-----------------------------------------------------------------------------
(* Further properties of the renderer *)

\* the HTML files and the PDF files of the generator's project
HtmlFiles(dsk) == dsk[epk.project_dir].html
PdfFiles(dsk) == dsk[epk.project_dir].pdf

\* C23: a generate_pdf call without HTML path whose backend is available
\* renders the document again with for_pdf=true, and the PDF it writes is
\* made from that document, whose asset references are all file URIs; a call
\* with an HTML path renders nothing again (no HTML file and no attribute of
\* the generator changes) and the PDF it writes is made from the file given.
C23_PdfSourceDocument ==
    [][returned'.call = "generate_pdf" =>
          LET html_file == returned'.args.html_file
              chosen == ChosenBackend(returned'.args.use_playwright)
              written == returned'.value # "None"
          IN  /\ (html_file = "None" /\ chosen # {}) =>
                    /\ ForPdf(epk')
                    /\ written =>
                          /\ "temp_for_pdf.html" \in DOMAIN HtmlFiles(disk')
                          /\ PdfFiles(disk')[returned'.value].source
                                 = HtmlFiles(disk')["temp_for_pdf.html"]
                          /\ \A src \in AssetRefs(PdfFiles(disk')[returned'.value].source) :
                                IsFileUri(src) /\ ~IsRelativePath(src)
              /\ html_file # "None" =>
                    /\ HtmlFiles(disk') = HtmlFiles(disk)
                    /\ epk' = epk
                    /\ written =>
                          PdfFiles(disk')[returned'.value].source = HtmlFiles(disk)[html_file]]_vars

\* a PDF was made without HTML path, from a print document that refers to
\* assets and differs from the browser document next to it
C23_Witness ==
    /\ Rerendered
    /\ "index.html" \in DOMAIN HtmlFiles(disk)
    /\ PdfFiles(disk)[returned.value].source = HtmlFiles(disk)["temp_for_pdf.html"]
    /\ PdfFiles(disk)[returned.value].source # HtmlFiles(disk)["index.html"]
    /\ AssetRefs(PdfFiles(disk)[returned.value].source) # {}

\* every asset reference of a document is of the path mode of for_pdf
InPathMode(doc, for_pdf) ==
    \A src \in AssetRefs(doc) :
        IF for_pdf THEN IsFileUri(src) /\ ~IsRelativePath(src)
        ELSE IsRelativePath(src) /\ ~IsFileUri(src)

\* C24: whatever flag the generator stored before a generate_html call, and
\* whatever calls came before it, the document the call writes is in the path
\* mode of the for_pdf argument of that call, and the stored flag is that
\* argument afterwards.
C24_PathModeIgnoresHistory ==
    [][(returned'.call = "generate_html" /\ ~returned'.raised) =>
          /\ InPathMode(HtmlFiles(disk')[returned'.value], returned'.args.for_pdf)
          /\ ForPdf(epk') = returned'.args.for_pdf]_vars

\* generate_html with for_pdf=false has written a document with relative
\* asset paths after a generate_pdf call had rendered the print document
C24_Witness ==
    /\ Generated
    /\ ~returned.args.for_pdf
    /\ DOMAIN PdfFiles(disk) # {}
    /\ "temp_for_pdf.html" \in DOMAIN HtmlFiles(disk)
    /\ returned.value # "temp_for_pdf.html"
    /\ AssetRefs(GeneratedDoc) # {}
    /\ \A src \in AssetRefs(GeneratedDoc) : IsRelativePath(src)

\* C25: a generate_pdf call without HTML path that writes a PDF has written
\* its rendering to temp_for_pdf.html, and every browser document that was
\* under output/html before the call (one in the path mode of for_pdf=false),
\* under whatever name generate_html was given, is there unchanged after it,
\* still with relative asset paths only.
C25_BrowserHtmlUnchanged ==
    [][(returned'.call = "generate_pdf" /\ returned'.args.html_file = "None") =>
          /\ returned'.value # "None" =>
                "temp_for_pdf.html" \in DOMAIN HtmlFiles(disk')
          /\ \A name \in DOMAIN HtmlFiles(disk) :
                InPathMode(HtmlFiles(disk)[name], FALSE) =>
                    /\ name \in DOMAIN HtmlFiles(disk')
                    /\ HtmlFiles(disk')[name] = HtmlFiles(disk)[name]
                    /\ InPathMode(HtmlFiles(disk')[name], FALSE)]_vars

\* C26: after every process_all call on a BatchProcessor, a second or later
\* one on the same instance included, the returned list holds exactly one
\* entry for each project the call discovered and nothing else, and the
\* summary it logged has a total equal to the number of discovered projects.
C26_OneEntryPerDiscoveredProject ==
    returned.call = "process_all" =>
        /\ Len(returned.value) = Cardinality(Discovered)
        /\ \A name \in Discovered : Cardinality(EntriesOf(returned.value, name)) = 1
        /\ Discovered # {} => batch.summary.total = Cardinality(Discovered)

\* C28: a create request answered with an error (400 or 500) leaves the
\* registry as it was, and an identifier enters the registry only in a create
\* request that is answered 200 with that identifier.
C28_FailedCreateLeavesRegistry ==
    [][/\ (returned'.call = "create_project" /\ returned'.value.status_code # 200) =>
              active_projects' = active_projects
       /\ \A id \in DOMAIN active_projects' \ DOMAIN active_projects :
              /\ returned'.call = "create_project"
              /\ returned'.value.status_code = 200
              /\ returned'.value.project_id = id]_vars

\* the identifiers uuid4 has produced so far; it produces none twice
HandedOut == { IdOrder[i] : i \in 1..ncalls }

\* neither a directory nor a registry entry under the identifier
Gone(id, dsk, registry) == id \notin DOMAIN dsk /\ id \notin DOMAIN registry

\* C27: delete_project answers "deleted" whether or not the project exists and
\* leaves neither directory nor registry entry; an identifier that was handed
\* out and is gone stays gone in every later step, and a status, generate or
\* download request for it is answered 404.
C27_DeletedStaysGone ==
    [][/\ returned'.call = "delete_project" =>
              /\ returned'.value.status_code = 200
              /\ returned'.value.status = "deleted"
              /\ Gone(returned'.args.project_id, disk', active_projects')
       /\ \A id \in HandedOut :
              Gone(id, disk, active_projects) =>
                  /\ Gone(id, disk', active_projects')
                  /\ (/\ returned'.call \in { "get_project_status", "generate_epk",
                                              "download_file" }
                      /\ returned'.args.project_id = id) =>
                         returned'.value.status_code = 404]_vars

\* the first project was created and later deleted, and a generate request
\* for it has just been answered 404 while the second project is registered
C27_Witness ==
    /\ Answered("generate_epk", 404)
    /\ returned.args.project_id = IdOrder[1]
    /\ IdOrder[1] \in HandedOut
    /\ Gone(IdOrder[1], disk, active_projects)
    /\ IdOrder[2] \in DOMAIN active_projects

\* C29: a generate request that is not answered 200 leaves the registry as it
\* was; a generate request changes the registry only when it is answered 200,
\* only in the entry of its project, which then has status "generated" and a
\* generated_at, and only with index.html written; an entry with status
\* "generated" always has its index.html.
C29_FailedGenerateLeavesEntry ==
    /\ [](\A id \in DOMAIN active_projects :
              StatusOf(active_projects, id) = "generated" =>
                  "index.html" \in DOMAIN DirOf(disk, id).html)
    /\ [][returned'.call = "generate_epk" =>
              /\ returned'.value.status_code # 200 => active_projects' = active_projects
              /\ active_projects' # active_projects =>
                    /\ returned'.value.status_code = 200
                    /\ "index.html" \in DOMAIN DirOf(disk', returned'.args.project_id).html
                    /\ DOMAIN active_projects' = DOMAIN active_projects
                    /\ \A id \in DOMAIN active_projects :
                          IF id = returned'.args.project_id
                          THEN /\ StatusOf(active_projects', id) = "generated"
                               /\ "generated_at" \in DOMAIN active_projects'[id]
                          ELSE active_projects'[id] = active_projects[id]]_vars

\* a generate request on a registered project has just been answered 500
\* because generate_html raised, and the entry is still as created
C29_Witness ==
    /\ Answered("generate_epk", 500)
    /\ \E i \in DOMAIN calls : calls[i].method = "generate_html" /\ calls[i].raised
    /\ returned.args.project_id \in DOMAIN active_projects
    /\ StatusOf(active_projects, returned.args.project_id) = "created"
    /\ "generated_at" \notin DOMAIN active_projects[returned.args.project_id]

\* C30: a generate_html call in which a section generator raises leaves the
\* disk as it was: no output file appears, and a file of the same name
\* written by an earlier call keeps its contents.
C30_RaisingRenderWritesNothing ==
    [][(returned'.call = "generate_html" /\ returned'.raised) =>
          /\ disk' = disk
          /\ \A name \in DOMAIN HtmlFiles(disk) :
                HtmlFiles(disk')[name] = HtmlFiles(disk)[name]
          /\ DOMAIN HtmlFiles(disk') = DOMAIN HtmlFiles(disk)]_vars

\* generate_html has just raised on the name of a file that an earlier,
\* successful call wrote, and that file is the document of the earlier call
C30_Witness ==
    /\ returned.call = "generate_html"
    /\ returned.raised
    /\ returned.args.output_name \in DOMAIN HtmlFiles(disk)
    /\ \E for_pdf \in DOMAIN rendered :
          HtmlFiles(disk)[returned.args.output_name] = rendered[for_pdf]

====
